---- MODULE Spec2Model ----
(***************************************************************************)
(* Kielipankki -> Metax bridge: one run of full_harvest                    *)
(* (metadata_harvester_cli.py) against the Metax dataset registry          *)
(* (metax_api.py) and the OAI-PMH source (harvester/pmh_interface.py).     *)
(*                                                                         *)
(* The source listing is a lazy generator: each record it delivers is an   *)
(* input of the step that consumes it.  Every HTTP request to the registry *)
(* is one step whose outcome (a response, or an exception class of the     *)
(* requests library) is an input of that step.                             *)
(***************************************************************************)
EXTENDS Integers, Sequences, FiniteSets, TLC

\* ------------------------------------------------------------------ bounds
MaxRecords == 2
MaxExtra == 1
PageLimit == 1

\* ------------------------------------------------------------------ values
\* Persistent identifiers, in the order of the registry identifiers their
\* entries have before the run.
PidList == <<"urn:nbn:fi:lb-1", "urn:nbn:fi:lb-2">>
PIDs == {PidList[i] : i \in 1..Len(PidList)}
\* None, as a PID, a registry identifier, a date and a page cursor.
NoPid == "None"
NoId == 0
NoDate == 0
NoUrl == -1
CatalogId == "urn:nbn:fi:att:data-catalog-kielipankki"

PidOrNone == PIDs \cup {NoPid}
Titles == {"new title"}
ResourceTypes == {"corpus", "other", "missing"}
ToDictOutcomes == {"ok", "RecordParsingError", "Exception"}
\* The record statuses backed up, and a backup directory per status with no
\* file in it.
Statuses == {"published", "in-progress"}
NoBackup == [status \in Statuses |-> {}]
\* No record content handed to a mapping method, no return value yet, and
\* the memo of _allowed_language_uris before its first call.
NoXml == "None"
NoResult == [status |-> "None"]
NoCache == <<>>

\* A source record, reduced to what the run reads from it: its PID (NoPid when
\* the MdSelfLink is missing and RecordParser.pid raises), its resource type,
\* whether to_dict succeeds, and its content.
Records == [pid : PidOrNone, rtype : ResourceTypes, to_dict : ToDictOutcomes,
            title : Titles]

NoRecord == [pid |-> NoPid, rtype |-> "other", to_dict |-> "ok", title |-> ""]

NoBody == [data_catalog |-> "", persistent_identifier |-> NoPid, title |-> "",
           state |-> ""]

\* Sequences over S of length at most n.
SeqsUpTo(S, n) == UNION {[1..k -> S] : k \in 0..n}

\* ------------------------------------------------------------------ state
VARIABLES
    \* configuration and command line
    automatic_delete, pause_between_records, save_records_locally,
    base_url_valid,
    \* harvester log file and the locals of full_harvest
    log, harvested_date, total_records, faulty_records, unsaved_records,
    pc, record, exit_code, stderr,
    \* the source: records delivered by the harvest listing, the published
    \* records not delivered by it (unchanged since harvested_date), the
    \* ListRecords requests made so far, and fetch_corpora's error_messages
    harvested, unchanged, full_listed, listings, error_messages,
    \* the registry (Metax) and the client's requests
    registry, nextId, metax_id, opLog, writeLog,
    \* datacatalog_dataset_record_pids and the deletion pass
    url, results, retained_pids, to_delete, pids_to_be_deleted,
    \* local backup directories
    backup,
    \* the record content handed to a mapping method of RecordParser and what
    \* the method returned or raised
    xml, result,
    \* the memo of _allowed_language_uris (functools.lru_cache) and the calls
    \* of language_in_vocabulary since the memo was last cleared
    lru_cache, vocabulary_log

config_vars == <<automatic_delete, pause_between_records, save_records_locally,
                 base_url_valid>>
run_vars == <<log, harvested_date, total_records, faulty_records,
              unsaved_records, pc, record, exit_code, stderr>>
source_vars == <<harvested, unchanged, full_listed, listings, error_messages>>
registry_vars == <<registry, nextId, metax_id, opLog, writeLog>>
deletion_vars == <<url, results, retained_pids, to_delete, pids_to_be_deleted>>

mapper_vars == <<xml, result, lru_cache, vocabulary_log>>

vars == <<config_vars, run_vars, source_vars, registry_vars, deletion_vars,
          backup, mapper_vars>>

\* ------------------------------------------------------------------ log
LogLine(sec, ms, message, total, since, faulty) ==
    [sec |-> sec, ms |-> ms, message |-> message, total |-> total,
     since |-> since, faulty |-> faulty]

\* Logs a run can find in place: of a run that never succeeded, of a
\* successful run.
InitLogs ==
    { << LogLine(1, 887, "Started", 0, NoDate, 0) >>,
      << LogLine(1, 887, "Started", 0, NoDate, 0),
         LogLine(1, 952, "Success", 1, NoDate, 0) >> }

\* The time of the run being modelled (asctime of its log lines).
RunTime == [sec |-> 2, ms |-> 690]

\* A scan that looks at the last two lines of the log only.
last_harvest_date_from_last_lines(lines, i) ==
    IF i > 1 /\ lines[i].message = "Success" /\ lines[i - 1].message = "Started"
    THEN lines[i - 1].sec
    ELSE NoDate

RECURSIVE last_harvest_date_from(_, _)
last_harvest_date_from(lines, i) ==
    IF i < 1 THEN NoDate
    ELSE IF lines[i].message = "Success"
            /\ i > 1 /\ lines[i - 1].message = "Started"
         THEN lines[i - 1].sec
         ELSE last_harvest_date_from(lines, i - 1)

\* The timestamp (seconds, the milliseconds dropped) of the Started line
\* right before the latest Success line that has one.
last_harvest_date(lines) == last_harvest_date_from(lines, Len(lines))

\* ------------------------------------------------------------------ registry
Entry(id, body) == [id |-> id, body |-> body]

\* RecordParser.to_dict: the canonical dict of a record.
to_dict(rec) ==
    [data_catalog |-> CatalogId, persistent_identifier |-> rec.pid,
     title |-> rec.title, state |-> "published"]

\* Registries before the run: at most one entry per PID, the entry of
\* PidList[i] under identifier i.
InitRegistries ==
    { { Entry(i, [data_catalog |-> CatalogId,
                  persistent_identifier |-> PidList[i],
                  title |-> "old title", state |-> "published"]) : i \in S }
      : S \in SUBSET (1..Len(PidList)) }

Matches(reg, pid) == {e \in reg : e.body.persistent_identifier = pid}

\* A lookup that never finds the entry.
record_id_not_found(reg, pid) == NoId

\* A lookup that takes the first of the reported entries, however many.
record_id_first_result(reg, pid) ==
    IF Matches(reg, pid) = {} THEN NoId
    ELSE (CHOOSE e \in Matches(reg, pid) :
             \A f \in Matches(reg, pid) : e.id <= f.id).id

\* GET /datasets?data_catalog__id=..&persistent_identifier=pid: the id of the
\* entry when the registry reports exactly one, None otherwise.
record_id(reg, pid) ==
    IF Cardinality(Matches(reg, pid)) = 1
    THEN (CHOOSE e \in Matches(reg, pid) : TRUE).id
    ELSE NoId

RECURSIVE SortById(_)
SortById(S) ==
    IF S = {} THEN <<>>
    ELSE LET first == CHOOSE e \in S : \A f \in S : e.id <= f.id
         IN  <<first>> \o SortById(S \ {first})

\* One page of GET /datasets?data_catalog__id=..&limit=..: the entries after
\* `offset` in identifier order and the cursor of the next page.
Page(reg, offset) ==
    LET all == SortById(reg)
        last == IF offset + PageLimit < Len(all) THEN offset + PageLimit
                ELSE Len(all)
    IN  [results |-> [i \in 1..(last - offset) |->
                         all[offset + i].body.persistent_identifier],
         next |-> IF last < Len(all) THEN last ELSE NoUrl]

\* What logger_api writes for a request: create, update and delete log an
\* error line in the handler of the HTTPError of raise_for_status and an info
\* line after it; an exception of the request call itself passes before any
\* logging, and the lookups and the listing log nothing.
NoLine == "None"
logger_api(method, outcome) ==
    IF method = "GET" THEN NoLine
    ELSE IF outcome = "ok" THEN "info"
    ELSE IF outcome = "HTTPError" THEN "error"
    ELSE NoLine

\* A request as get_dataset_record_metax_id, create_dataset, update_dataset,
\* delete_dataset or datacatalog_dataset_record_pids issued it with
\* requests.get / post / put / delete, with how it ended and the line logged
\* for it.  (_make_request, which logs and swallows every RequestException, is
\* called by none of them.)
Req(method, pid, id, body, outcome) ==
    [method |-> method, pid |-> pid, id |-> id, body |-> body,
     outcome |-> outcome, logged |-> logger_api(method, outcome)]

Range(s) == {s[i] : i \in 1..Len(s)}

\* ------------------------------------------------------------------ init
Init ==
    /\ automatic_delete \in BOOLEAN
    /\ pause_between_records \in BOOLEAN
    /\ save_records_locally \in BOOLEAN
    /\ base_url_valid \in BOOLEAN
    /\ log \in InitLogs
    /\ harvested_date = NoDate
    /\ total_records = 0
    /\ faulty_records = 0
    /\ unsaved_records = 0
    /\ pc = "start"
    /\ record = NoRecord
    /\ exit_code = 0
    /\ stderr = {}
    /\ harvested = <<>>
    /\ unchanged = <<>>
    /\ full_listed = FALSE
    /\ listings = <<>>
    /\ error_messages = 0
    /\ registry \in InitRegistries
    /\ nextId = Len(PidList) + 1
    /\ metax_id = NoId
    /\ opLog = <<>>
    /\ writeLog = <<>>
    /\ url = NoUrl
    /\ results = <<>>
    /\ retained_pids = {}
    /\ to_delete = {}
    /\ pids_to_be_deleted = {}
    /\ backup = NoBackup
    /\ xml = NoXml
    /\ result = NoResult
    /\ lru_cache = NoCache
    /\ vocabulary_log = <<>>

\* ------------------------------------------------------------------ run
Message(kind, pid) == [kind |-> kind, pid |-> pid]

ListRecords(from, status) == [from |-> from, status |-> status]

\* full_harvest up to the send loop: read the last harvest date, log
\* "Started", open the harvest listing.
Start ==
    /\ pc = "start"
    /\ harvested_date' = last_harvest_date(log)
    /\ log' = Append(log, LogLine(RunTime.sec, RunTime.ms, "Started", 0, NoDate, 0))
    /\ total_records' = 0
    /\ faulty_records' = 0
    /\ listings' = <<ListRecords(last_harvest_date(log), "published")>>
    /\ full_listed' = (last_harvest_date(log) = NoDate)
    /\ pc' = "fetch"
    /\ UNCHANGED <<config_vars, unsaved_records, record, exit_code, stderr,
                   harvested, unchanged, error_messages, registry_vars,
                   deletion_vars, backup>>
    /\ UNCHANGED mapper_vars

\* RecordParser.check_resourcetype_corpus: True for a corpus, None for another
\* type; when the type is in neither place the second _get_text_xpath indexes
\* an empty list.
check_resourcetype_corpus(rec) ==
    IF rec.rtype = "missing" THEN "IndexError"
    ELSE IF rec.rtype = "corpus" THEN "True"
    ELSE "None"

\* One iteration of fetch_corpora inside full_harvest's for loop: the listing
\* delivers rec; a corpus is yielded to the loop body (total_records += 1).
FetchRecord(rec) ==
    /\ pc = "fetch"
    /\ Len(harvested) < MaxRecords
    /\ harvested' = Append(harvested, rec.pid)
    /\ CASE check_resourcetype_corpus(rec) = "True" ->
              /\ total_records' = total_records + 1
              /\ record' = rec
              /\ pc' = "send"
              /\ UNCHANGED <<error_messages, exit_code>>
         [] check_resourcetype_corpus(rec) = "None" ->
              UNCHANGED <<total_records, record, pc, error_messages, exit_code>>
         [] check_resourcetype_corpus(rec) = "RecordParsingError" ->
              /\ error_messages' = error_messages + 1
              /\ UNCHANGED <<total_records, record, pc, exit_code>>
         [] check_resourcetype_corpus(rec) = "IndexError" ->
              \* not a RecordParsingError: nothing catches it
              /\ pc' = "crashed"
              /\ exit_code' = 1
              /\ UNCHANGED <<total_records, record, error_messages>>
    /\ UNCHANGED <<config_vars, log, harvested_date, faulty_records,
                   unsaved_records, stderr, unchanged, full_listed, listings,
                   registry_vars, deletion_vars, backup>>
    /\ UNCHANGED mapper_vars

\* The listing is exhausted: fetch_corpora raises UnknownResourceTypeError
\* when it collected error messages, and the loop is left either way.
EndOfListing ==
    /\ pc = "fetch"
    /\ IF error_messages > 0
       THEN /\ faulty_records' = faulty_records + error_messages
            /\ stderr' = stderr \cup {Message("unknown_resource_type", NoPid)}
       ELSE UNCHANGED <<faulty_records, stderr>>
    /\ pc' = "summary"
    /\ UNCHANGED <<config_vars, log, harvested_date, total_records,
                   unsaved_records, record, exit_code, source_vars,
                   registry_vars, deletion_vars, backup>>
    /\ UNCHANGED mapper_vars

\* Except clauses in which the clause for RequestException, the base class of
\* the three, comes first.
MisconfigurationErrors_shadowed == {}

\* except (MissingSchema, InvalidSchema, InvalidURL).
MisconfigurationErrors == {"MissingSchema", "InvalidSchema", "InvalidURL"}

\* The line echoed to the error stream for an exception out of send_record;
\* the lines of the three classes that do not abort differ in wording only.
send_error_line(error) ==
    IF error \in MisconfigurationErrors THEN Message("configuration_error", NoPid)
    ELSE IF error \in {"Exception", "KeyError"}
    THEN Message("unexpected_problem", NoPid)
    ELSE Message("record_not_sent", NoPid)

\* The except clauses around send_record: every class counts the record as
\* faulty; a misconfiguration and an unexpected exception abort the run.
send_except(error) ==
    /\ faulty_records' = faulty_records + 1
    /\ stderr' = stderr \cup {send_error_line(error)}
    /\ IF error \in MisconfigurationErrors \cup {"Exception", "KeyError"}
       THEN pc' = "aborted" /\ exit_code' = 1
       ELSE pc' = "sent" /\ UNCHANGED exit_code

\* POST /datasets.
create_dataset(body, outcome) ==
    /\ opLog' = Append(opLog, Req("POST", body.persistent_identifier, NoId,
                                  body, outcome))
    /\ IF outcome = "ok"
       THEN /\ registry' = registry \cup {Entry(nextId, body)}
            /\ nextId' = nextId + 1
            /\ writeLog' = Append(writeLog,
                   [method |-> "POST", pid |-> body.persistent_identifier,
                    id |-> nextId])
       ELSE UNCHANGED <<registry, nextId, writeLog>>

\* An update that posts the body as a new entry.
update_dataset_as_create(id, body, outcome) == create_dataset(body, outcome)

\* PUT /datasets/{id}.
update_dataset(id, body, outcome) ==
    /\ outcome = "ok" => \E e \in registry : e.id = id
    /\ opLog' = Append(opLog, Req("PUT", body.persistent_identifier, id, body,
                                  outcome))
    /\ IF outcome = "ok"
       THEN /\ registry' = {e \in registry : e.id # id} \cup {Entry(id, body)}
            /\ writeLog' = Append(writeLog,
                   [method |-> "PUT", pid |-> body.persistent_identifier,
                    id |-> id])
            /\ UNCHANGED nextId
       ELSE UNCHANGED <<registry, nextId, writeLog>>

\* A delete that issues no request.
delete_dataset_skipped(id, outcome) == UNCHANGED <<opLog, registry>>

\* DELETE /datasets/{id}.
delete_dataset(id, outcome) ==
    /\ outcome = "ok" => \E e \in registry : e.id = id
    /\ opLog' = Append(opLog, Req("DELETE", NoPid, id, NoBody, outcome))
    /\ IF outcome = "ok"
       THEN registry' = {e \in registry : e.id # id}
       ELSE UNCHANGED registry

\* A GET is answered with the page asked for, fails as a request, or is
\* answered with an error status: no raise_for_status follows the GET, so the
\* read of "count" or "results" in the body of the error raises KeyError.
LookupOutcomes == {"ok", "RequestException", "KeyError"}
WriteOutcomes == {"ok", "HTTPError", "RequestException"}

\* send_record, first half: record.pid, then the lookup of that PID.
send_record_lookup ==
    /\ pc = "send"
    /\ IF record.pid = NoPid
       THEN /\ opLog' = <<>>
            /\ metax_id' = NoId
            /\ send_except("RecordParsingError")
       ELSE IF ~base_url_valid
       THEN /\ opLog' = <<>>
            /\ metax_id' = NoId
            /\ send_except("MissingSchema")
       ELSE \E outcome \in LookupOutcomes :
            /\ opLog' = <<Req("GET", record.pid, NoId, NoBody, outcome)>>
            /\ IF outcome = "ok"
               THEN /\ metax_id' = record_id(registry, record.pid)
                    /\ pc' = "send_write"
                    /\ UNCHANGED <<faulty_records, stderr, exit_code>>
               ELSE /\ metax_id' = NoId
                    /\ send_except(outcome)
    /\ UNCHANGED <<config_vars, log, harvested_date, total_records,
                   unsaved_records, record, source_vars, registry, nextId,
                   writeLog, deletion_vars, backup>>
    /\ UNCHANGED mapper_vars

\* send_record, second half: to_dict, then the update of the looked-up entry
\* or the create.
send_record_write ==
    /\ pc = "send_write"
    /\ IF record.to_dict # "ok"
       THEN /\ send_except(record.to_dict)
            /\ UNCHANGED <<registry, nextId, opLog, writeLog>>
       ELSE \E outcome \in WriteOutcomes :
            /\ IF metax_id # NoId
               THEN update_dataset(metax_id, to_dict(record), outcome)
               ELSE create_dataset(to_dict(record), outcome)
            /\ IF outcome = "ok"
               THEN pc' = "sent" /\ UNCHANGED <<faulty_records, stderr, exit_code>>
               ELSE send_except(outcome)
    /\ UNCHANGED <<config_vars, log, harvested_date, total_records,
                   unsaved_records, record, source_vars, metax_id,
                   deletion_vars, backup>>
    /\ UNCHANGED mapper_vars

\* The end of the loop body: when pausing between records, the echo of
\* record.pid (which raises RecordParsingError, caught by nothing, for a
\* record without PID) and the prompt (its answer is `selection`); then the
\* next iteration.  The loop variable and the finished call's requests are
\* dead from here on.
record_done(selection) ==
    /\ pc = "sent"
    /\ IF pause_between_records /\ record.pid = NoPid
       THEN /\ selection = "next"
            /\ pc' = "crashed"
            /\ exit_code' = 1
            /\ UNCHANGED pause_between_records
       ELSE IF pause_between_records
       THEN CASE selection = "abort" ->
                   /\ pc' = "aborted"
                   /\ exit_code' = 1
                   /\ UNCHANGED pause_between_records
              [] selection = "all" ->
                   /\ pc' = "fetch"
                   /\ pause_between_records' = FALSE
                   /\ UNCHANGED exit_code
              [] selection = "next" ->
                   /\ pc' = "fetch"
                   /\ UNCHANGED <<pause_between_records, exit_code>>
       ELSE /\ selection = "next"
            /\ pc' = "fetch"
            /\ UNCHANGED <<pause_between_records, exit_code>>
    /\ record' = NoRecord
    /\ opLog' = <<>>
    /\ metax_id' = NoId
    /\ UNCHANGED <<automatic_delete, save_records_locally, base_url_valid, log,
                   harvested_date, total_records, faulty_records,
                   unsaved_records, stderr, source_vars, registry, nextId,
                   writeLog, deletion_vars, backup>>
    /\ UNCHANGED mapper_vars

\* The summary line: "Success" whether or not records were faulty.
Summary ==
    /\ pc = "summary"
    /\ log' = Append(log, LogLine(RunTime.sec, RunTime.ms, "Success",
                                  total_records, harvested_date, faulty_records))
    /\ unsaved_records' = 0
    /\ pc' = IF save_records_locally THEN "backup_published" ELSE "relist"
    /\ UNCHANGED <<config_vars, harvested_date, total_records, faulty_records,
                   record, exit_code, stderr, source_vars, registry_vars,
                   deletion_vars, backup>>
    /\ UNCHANGED mapper_vars

\* fetch_records(from_timestamp) for the published records, as PIDs in listing
\* order: the records the harvest listing delivered and, without a from
\* timestamp, also those unchanged since harvested_date (`rest`).
fetch_records(from_timestamp, rest) ==
    IF from_timestamp = NoDate THEN harvested \o rest ELSE harvested

\* Listings after the send loop that ask for the changes since the last
\* harvest only.
full_listing_from_last_harvest == harvested_date

\* The from timestamp of the listings made after the send loop: none.
full_listing_from == NoDate

\* A pid property that returns None instead of raising.
pid_never_raises(listing) == FALSE

\* RecordParser.pid over a listing: raises RecordParsingError at a record
\* whose MdSelfLink is missing.
pid_raises(listing) == NoPid \in Range(listing)

\* A run that deletes whether or not --automatic-delete is given.
deletion_mode_always_delete == "delete"

\* The branch on --automatic-delete.
deletion_mode == IF automatic_delete THEN "delete" ELSE "report"

\* save_record_to_file over a listing: the files written (named by PID) and
\* the records whose PID cannot be determined.
saved_files(listing) == {pid \in Range(listing) : pid # NoPid}
unsaved_count(listing) == Cardinality({i \in 1..Len(listing) : listing[i] = NoPid})

\* The backup of one directory: the entries of the directory are removed one
\* by one in the order the directory lists them, then every record of the
\* status is listed and saved.  `old_files` is how the removal ends: every
\* entry "removed"; an entry of another name than a backup file's halts the
\* run ("unexpected_file"); an entry of a backup file's name that unlink
\* cannot remove, such as a directory (is_file is read, not called), raises
\* "OSError", which nothing catches.  Either way the old files listed before
\* that entry are already removed.  `listed` is what the source holds beyond the harvested
\* records: the unchanged published records, or the in-progress records.
backup_directory(status, old_files, listed) ==
    /\ pc = IF status = "published" THEN "backup_published"
            ELSE "backup_in_progress"
    /\ status = "published" /\ full_listed => listed = unchanged
    /\ IF old_files # "removed"
       THEN /\ stderr' = IF old_files = "unexpected_file"
                         THEN stderr \cup {Message("unexpected_file", NoPid)}
                         ELSE stderr
            /\ pc' = IF old_files = "unexpected_file" THEN "aborted"
                     ELSE "crashed"
            /\ exit_code' = 1
            /\ \E removed \in SUBSET backup[status] :
                  backup' = [backup EXCEPT ![status] = @ \ removed]
            /\ UNCHANGED <<unsaved_records, listings, unchanged, full_listed>>
       ELSE LET records == IF status = "published"
                           THEN fetch_records(full_listing_from, listed)
                           ELSE listed
            IN  /\ listings' = Append(listings,
                                      ListRecords(full_listing_from, status))
                /\ IF status = "published"
                   THEN unchanged' = listed /\ full_listed' = TRUE
                   ELSE UNCHANGED <<unchanged, full_listed>>
                /\ backup' = [backup EXCEPT ![status] = saved_files(records)]
                /\ unsaved_records' = unsaved_records + unsaved_count(records)
                /\ stderr' = IF unsaved_count(records) > 0
                             THEN stderr \cup {Message("backup_failed", NoPid)}
                             ELSE stderr
                /\ pc' = IF status = "published" THEN "backup_in_progress"
                         ELSE "relist"
                /\ UNCHANGED exit_code
    /\ UNCHANGED <<config_vars, log, harvested_date, total_records,
                   faulty_records, record, harvested, error_messages,
                   registry_vars, deletion_vars>>
    /\ UNCHANGED mapper_vars

\* pids_to_be_deleted: what the registry lists and the retained records do
\* not have.
pids_to_be_removed(all_pids, retained) == Range(all_pids) \ retained

\* The except clauses of delete_records: every failure of the automatic
\* deletion aborts the run.
delete_except(error, pid) ==
    /\ stderr' = stderr \cup {Message(error, pid)}
    /\ pc' = "aborted"
    /\ exit_code' = 1

\* The lines listing the deletion candidates on the error stream.
candidate_lines(pids) ==
    IF pids = {} THEN {}
    ELSE {Message("should_be_deleted", NoPid)}
         \cup {Message("candidate", pid) : pid \in pids}

\* The deletion pass opens: the source is listed in full and the PIDs of the
\* retained records are collected; a record without PID raises
\* RecordParsingError.
relist(rest) ==
    /\ pc = "relist"
    /\ full_listed => rest = unchanged
    /\ listings' = Append(listings, ListRecords(full_listing_from, "published"))
    /\ unchanged' = rest
    /\ full_listed' = TRUE
    /\ opLog' = <<>>
    /\ metax_id' = NoId
    /\ IF pid_raises(fetch_records(full_listing_from, rest))
       THEN /\ UNCHANGED <<url, results, retained_pids, to_delete,
                           pids_to_be_deleted>>
            /\ IF deletion_mode = "delete"
               THEN delete_except("RecordParsingError", NoPid)
               ELSE /\ stderr' = stderr \cup
                            {Message("deletion_not_determined", NoPid),
                             Message("no_records_deleted", NoPid)}
                    /\ pc' = "exit"
                    /\ UNCHANGED exit_code
       ELSE /\ retained_pids' = Range(fetch_records(full_listing_from, rest))
            /\ url' = 0
            /\ results' = <<>>
            /\ pc' = "list_registry"
            /\ UNCHANGED <<to_delete, pids_to_be_deleted, stderr, exit_code>>
    /\ UNCHANGED <<config_vars, log, harvested_date, total_records,
                   faulty_records, unsaved_records, record, harvested,
                   error_messages, registry, nextId, writeLog, backup>>
    /\ UNCHANGED mapper_vars

\* A loop that keeps the results of the page read last only.
extend_overwrites(all_results, page_results) == page_results

\* results.extend(data["results"]).
extend(all_results, page_results) == all_results \o page_results

\* One iteration of datacatalog_dataset_record_pids: GET the page at url and
\* follow its next cursor; after the last page the difference is taken and,
\* without --automatic-delete, listed on the error stream.
datacatalog_dataset_record_pids(outcome) ==
    /\ pc = "list_registry"
    /\ outcome = "MissingSchema" <=> ~base_url_valid
    /\ IF outcome # "MissingSchema"
       THEN opLog' = Append(opLog, Req("GET", NoPid, NoId, NoBody, outcome))
       ELSE UNCHANGED opLog
    /\ IF outcome = "ok"
       THEN LET page == Page(registry, url)
                all == extend(results, page.results)
                removed == pids_to_be_removed(all, retained_pids)
            IN  /\ results' = all
                /\ url' = page.next
                /\ UNCHANGED exit_code
                /\ IF page.next # NoUrl
                   THEN UNCHANGED <<pc, to_delete, pids_to_be_deleted, stderr>>
                   ELSE IF deletion_mode = "delete"
                   THEN /\ to_delete' = removed
                        /\ pc' = IF removed = {} THEN "exit" ELSE "delete_lookup"
                        /\ UNCHANGED <<pids_to_be_deleted, stderr>>
                   ELSE /\ pids_to_be_deleted' = removed
                        /\ stderr' = stderr \cup candidate_lines(removed)
                        /\ pc' = "exit"
                        /\ UNCHANGED to_delete
       ELSE /\ UNCHANGED <<results, url, to_delete, pids_to_be_deleted>>
            /\ IF deletion_mode = "delete"
               THEN delete_except(IF outcome = "KeyError" THEN outcome
                                  ELSE "RequestException", NoPid)
               ELSE \* pids_to_be_deleted is guarded for RecordParsingError only
                    /\ pc' = "crashed"
                    /\ exit_code' = 1
                    /\ UNCHANGED stderr
    /\ UNCHANGED <<config_vars, log, harvested_date, total_records,
                   faulty_records, unsaved_records, record, source_vars,
                   registry, nextId, metax_id, writeLog, retained_pids, backup>>
    /\ UNCHANGED mapper_vars

\* delete_records_not_in, one PID to be removed: the lookup of its registry
\* identifier.
delete_record_lookup(pid, outcome) ==
    /\ pc = "delete_lookup"
    /\ pid \in to_delete
    /\ to_delete' = to_delete \ {pid}
    /\ opLog' = Append(opLog, Req("GET", pid, NoId, NoBody, outcome))
    /\ IF outcome = "ok"
       THEN /\ metax_id' = record_id(registry, pid)
            /\ pc' = "delete_record"
            /\ UNCHANGED <<stderr, exit_code>>
       ELSE /\ metax_id' = NoId
            /\ delete_except(outcome, pid)
    /\ UNCHANGED <<config_vars, log, harvested_date, total_records,
                   faulty_records, unsaved_records, record, source_vars,
                   registry, nextId, writeLog, url, results, retained_pids,
                   pids_to_be_deleted, backup>>
    /\ UNCHANGED mapper_vars

\* delete_records_not_in, one PID to be removed: the DELETE of the looked-up
\* identifier.
delete_record(outcome) ==
    /\ pc = "delete_record"
    /\ delete_dataset(metax_id, outcome)
    /\ IF outcome = "ok"
       THEN /\ pc' = IF to_delete = {} THEN "exit" ELSE "delete_lookup"
            /\ UNCHANGED <<stderr, exit_code>>
       ELSE delete_except(outcome, NoPid)
    /\ UNCHANGED <<config_vars, log, harvested_date, total_records,
                   faulty_records, unsaved_records, record, source_vars,
                   nextId, metax_id, writeLog, deletion_vars, backup>>
    /\ UNCHANGED mapper_vars

\* An exit status that looks at the faulty records only.
Exit_faulty_only ==
    /\ pc = "exit"
    /\ exit_code' = IF faulty_records # 0 THEN 1 ELSE 0
    /\ pc' = "done"
    /\ UNCHANGED <<config_vars, log, harvested_date, total_records,
                   faulty_records, unsaved_records, record, stderr, source_vars,
                   registry_vars, deletion_vars, backup>>
    /\ UNCHANGED mapper_vars

\* The end of full_harvest: exit(1) when a record was faulty or not backed up.
Exit ==
    /\ pc = "exit"
    /\ exit_code' = IF faulty_records # 0 \/ unsaved_records # 0 THEN 1 ELSE 0
    /\ pc' = "done"
    /\ UNCHANGED <<config_vars, log, harvested_date, total_records,
                   faulty_records, unsaved_records, record, stderr, source_vars,
                   registry_vars, deletion_vars, backup>>
    /\ UNCHANGED mapper_vars

Listings == SeqsUpTo(PidOrNone, MaxExtra)

Next ==
    \/ Start
    \/ \E rec \in Records : FetchRecord(rec)
    \/ EndOfListing
    \/ send_record_lookup
    \/ send_record_write
    \/ \E selection \in {"next", "all", "abort"} : record_done(selection)
    \/ Summary
    \/ \E status \in Statuses,
          old_files \in {"removed", "unexpected_file", "OSError"},
          listed \in Listings : backup_directory(status, old_files, listed)
    \/ \E rest \in Listings : relist(rest)
    \/ \E outcome \in LookupOutcomes \cup {"MissingSchema"} :
          datacatalog_dataset_record_pids(outcome)
    \/ \E pid \in PIDs, outcome \in LookupOutcomes :
          delete_record_lookup(pid, outcome)
    \/ \E outcome \in WriteOutcomes : delete_record(outcome)
    \/ Exit

Spec == Init /\ [][Next]_vars

\* ------------------------------------------------------------------ properties
SendPcs == {"send", "send_write", "sent"}
DeletionPcs == {"list_registry", "delete_lookup", "delete_record"}

\* C1: sending is idempotent on the registry.  Whatever number of times the
\* records of one PID are sent, the registry holds at most one entry of that
\* PID: of two successful writes for the same PID the later one is an update
\* of the entry the earlier one wrote, and after a successful send the one
\* entry of the PID carries the canonical dict of the record sent last.
C1_SendIdempotent ==
    /\ \A pid \in PIDs : Cardinality(Matches(registry, pid)) <= 1
    /\ \A i, j \in 1..Len(writeLog) :
          i < j /\ writeLog[i].pid = writeLog[j].pid =>
              writeLog[j].method = "PUT" /\ writeLog[j].id = writeLog[i].id
    /\ pc = "sent" /\ Len(opLog) = 2 /\ opLog[2].outcome = "ok" =>
          \E e \in registry :
              Matches(registry, record.pid) = {e} /\ e.body = to_dict(record)

\* The same record was sent twice: the first send created the entry, the
\* second updated it.
C1_Witness ==
    \E i, j \in 1..Len(writeLog) :
        /\ i < j
        /\ writeLog[i].method = "POST" /\ writeLog[j].method = "PUT"
        /\ writeLog[i].pid = writeLog[j].pid /\ writeLog[i].id = writeLog[j].id
        /\ Cardinality(Matches(registry, writeLog[i].pid)) = 1

\* A send_record call returned normally: the record has a PID and a dict, and
\* no request of the call failed.
SendReturned ==
    /\ pc = "sent"
    /\ record.pid # NoPid /\ record.to_dict = "ok" /\ base_url_valid
    /\ \A k \in 1..Len(opLog) : opLog[k].outcome = "ok"

\* C2: a send issues exactly two registry requests, in this order: the lookup
\* of the record's PID, then one write carrying the record's canonical dict,
\* an update addressed to the looked-up identifier when the lookup found one
\* and a create otherwise.  A call that raises has issued a prefix of these.
C2_SendRequests ==
    /\ SendReturned =>
          opLog = << Req("GET", record.pid, NoId, NoBody, "ok"),
                     IF metax_id # NoId
                     THEN Req("PUT", record.pid, metax_id, to_dict(record), "ok")
                     ELSE Req("POST", record.pid, NoId, to_dict(record), "ok") >>
    /\ pc = "send_write" =>
          /\ opLog = << Req("GET", record.pid, NoId, NoBody, "ok") >>
          /\ metax_id = record_id(registry, record.pid)
    /\ pc \in SendPcs =>
          /\ Len(opLog) <= 2
          /\ \A k \in 1..Len(opLog) :
                (k = 1) <=> (opLog[k].method = "GET" /\ opLog[k].pid = record.pid)

\* A record whose PID the registry already has was sent: lookup, then update.
C2_Witness ==
    /\ SendReturned
    /\ Len(opLog) = 2 /\ opLog[2].method = "PUT" /\ opLog[2].id = metax_id
    /\ metax_id # NoId

\* ---- the deletion pass
\* The published records of the source and the PIDs the registry holds.
SourcePids == Range(harvested) \cup Range(unchanged)
RegistryPids == {e.body.persistent_identifier : e \in registry}

\* The PIDs listed as deletion candidates on the error stream.
ListedCandidates == {m.pid : m \in {x \in stderr : x.kind = "candidate"}}

\* The positions of the DELETE requests of the deletion pass, and the PIDs
\* whose entry a DELETE removed (the PID is that of the lookup before it).
Deletes == {k \in 1..Len(opLog) : opLog[k].method = "DELETE"}
DeletedPids == {opLog[k - 1].pid : k \in {d \in Deletes : opLog[d].outcome = "ok"}}
LookedUpForDeletion ==
    {opLog[k].pid : k \in {g \in 1..Len(opLog) :
                              opLog[g].method = "GET" /\ opLog[g].pid # NoPid}}

\* The deletion pass has read the last page of the registry listing.
ListingComplete ==
    /\ opLog # <<>> /\ opLog[1] = Req("GET", NoPid, NoId, NoBody, "ok")
    /\ url = NoUrl

\* C3: the deletion candidates of a run are exactly the PIDs the registry
\* lists that no published record of the source has; no PID of the source
\* listing is a candidate and every other PID the registry lists is one.
C3_Candidates ==
    LET candidates == IF automatic_delete
                      THEN to_delete \cup LookedUpForDeletion
                      ELSE pids_to_be_deleted
    IN  /\ ListingComplete =>
              /\ Range(results) = RegistryPids \cup DeletedPids
              /\ candidates = Range(results) \ SourcePids
              /\ ~automatic_delete => ListedCandidates = candidates
        /\ ~ListingComplete =>
              to_delete = {} /\ pids_to_be_deleted = {} /\ ListedCandidates = {}

\* The registry lists two PIDs on two pages, one of them gone from the
\* source: that one is the only candidate.
C3_Witness ==
    /\ ListingComplete /\ ~automatic_delete /\ pc = "done"
    /\ Len(results) > PageLimit
    /\ pids_to_be_deleted # {} /\ pids_to_be_deleted # Range(results)

\* C4: delete_records_not_in issues one DELETE for each PID the registry
\* lists that is not retained, each right after the lookup of that PID and
\* addressed to the looked-up entry, and no DELETE for a retained PID; it
\* issues none when every PID the registry lists is retained.
C4_DeleteNotRetained ==
    automatic_delete /\ opLog # <<>> /\ opLog[1].pid = NoPid =>
        /\ \A k \in Deletes :
              /\ k > 1
              /\ opLog[k - 1].method = "GET" /\ opLog[k - 1].outcome = "ok"
              /\ opLog[k - 1].pid \in Range(results) \ retained_pids
              /\ opLog[k].id # NoId
              /\ IF opLog[k].outcome = "ok"
                 THEN Matches(registry, opLog[k - 1].pid) = {}
                 ELSE opLog[k].id = record_id(registry, opLog[k - 1].pid)
        /\ \A k, l \in Deletes : k # l => opLog[k - 1].pid # opLog[l - 1].pid
        /\ Range(results) \subseteq retained_pids => Deletes = {}
        /\ ListingComplete /\ pc \in {"exit", "done"} =>
              /\ DeletedPids = Range(results) \ retained_pids
              /\ Cardinality(Deletes) = Cardinality(Range(results) \ retained_pids)
              /\ RegistryPids \subseteq retained_pids

\* The pass completed having deleted the entry of a PID gone from the source.
C4_Witness ==
    /\ automatic_delete /\ ListingComplete /\ pc = "done"
    /\ Deletes # {} /\ DeletedPids # {}
    /\ RegistryPids # {}

\* C5: when a published record of the source has no PID, building the
\* retained set raises RecordParsingError and the whole deletion pass is off:
\* the registry is not listed, no DELETE is issued and no candidate is
\* reported.
C5_ParsingErrorAbortsDeletion ==
    NoPid \in SourcePids =>
        /\ pc \notin DeletionPcs
        /\ ~ListingComplete
        /\ Deletes = {}
        /\ to_delete = {} /\ pids_to_be_deleted = {} /\ ListedCandidates = {}
        /\ Message("should_be_deleted", NoPid) \notin stderr

\* The automatic deletion met a record without PID while the registry held
\* an entry gone from the source: the run aborted and the entry is in place.
C5_Witness ==
    /\ automatic_delete /\ pc = "aborted"
    /\ Message("RecordParsingError", NoPid) \in stderr
    /\ RegistryPids \ SourcePids # {}

\* C6: without --automatic-delete a run issues no DELETE: the PIDs only the
\* registry has are listed on the error stream and stay in the registry.  With
\* the flag they are deleted and none is listed.
C6_AutomaticDeleteFlag ==
    /\ ~automatic_delete =>
          /\ Deletes = {} /\ to_delete = {}
          /\ ListingComplete =>
                /\ ListedCandidates = RegistryPids \ SourcePids
                /\ (ListedCandidates # {}) <=>
                      (Message("should_be_deleted", NoPid) \in stderr)
    /\ automatic_delete =>
          /\ ListedCandidates = {} /\ pids_to_be_deleted = {}
          /\ Message("should_be_deleted", NoPid) \notin stderr
          /\ ListingComplete /\ pc = "done" => RegistryPids \subseteq SourcePids

\* A run without the flag ended with an entry only the registry has: it is
\* listed and still there.
C6_Witness ==
    /\ ~automatic_delete /\ pc = "done" /\ ListingComplete
    /\ ListedCandidates # {}
    /\ ListedCandidates \subseteq RegistryPids

\* The requests of the send loop in opLog, and those of the deletion pass.
Writes == {k \in 1..Len(opLog) : opLog[k].method \in {"POST", "PUT"}}
DeletionRequests ==
    {k \in 1..Len(opLog) : opLog[1].pid = NoPid \/ opLog[k].method = "DELETE"}

\* C7: the phases of a run are strictly ordered.  Nothing is sent once the
\* source has been listed again for backup or deletion, no request of the
\* deletion pass is issued before the send loop has ended and its summary is
\* logged, and the retained set comes from a listing of the whole source, not
\* of the changes since the last harvest.
C7_PhaseOrder ==
    /\ pc \in SendPcs \cup {"fetch"} =>
          Len(listings) = 1 /\ log[Len(log)].message = "Started"
    /\ Writes # {} =>
          Len(listings) = 1 /\ listings[1].from = harvested_date
    /\ DeletionRequests # {} =>
          /\ pc \notin SendPcs \cup {"start", "fetch", "summary"}
          /\ log[Len(log)].message = "Success"
          /\ log[Len(log)].total = total_records
          /\ Writes = {}
    /\ pc \in DeletionPcs \/ DeletionRequests # {} =>
          /\ listings[Len(listings)] = ListRecords(NoDate, "published")
          /\ retained_pids = SourcePids

\* An incremental run has sent a record and then, the source listed in full,
\* issues a DELETE.
C7_Witness ==
    /\ Deletes # {} /\ harvested_date # NoDate
    /\ writeLog # <<>> /\ unchanged # <<>>
    /\ Len(listings) = 2

\* ---- failures
\* A step in which send_record raises RecordParsingError, HTTPError or
\* another RequestException that is no misconfiguration.
SendRaisesConfined ==
    \/ pc = "send" /\ record.pid = NoPid
    \/ pc = "send" /\ record.pid # NoPid /\ base_url_valid
                   /\ opLog' # <<>> /\ opLog'[1].outcome = "RequestException"
    \/ pc = "send_write" /\ record.to_dict = "RecordParsingError"
    \/ pc = "send_write" /\ record.to_dict = "ok"
                         /\ Len(opLog') = 2 /\ opLog'[2].outcome # "ok"

\* C8: the send failure of one record (RecordParsingError, HTTPError or
\* another RequestException) is confined to that record: the faulty count
\* grows by exactly one, and the loop goes on to the records the source still
\* delivers (unless the operator aborts at the prompt).
C8_FailureConfined ==
    [][ /\ SendRaisesConfined =>
              faulty_records' = faulty_records + 1 /\ pc' = "sent"
        /\ pc = "sent" /\ ~SendReturned =>
              pc' = "fetch" \/ (pause_between_records /\ pc' = "aborted") ]_vars

\* C9: a misconfiguration error out of send (MissingSchema, InvalidSchema,
\* InvalidURL) aborts the run then and there: the record is counted faulty,
\* the run never leaves the aborted state (no later record is sent), no
\* Success line is logged, nothing is backed up or listed again, nothing is
\* deleted, and the exit status is nonzero.
C9_MisconfigurationAborts ==
    LET aborted_at_send ==
            /\ pc = "aborted" /\ exit_code # 0
            /\ Message("configuration_error", NoPid) \in stderr
            /\ faulty_records > 0
            /\ log[Len(log)].message = "Started"
            /\ backup = NoBackup
            /\ Len(listings) = 1
            /\ opLog = <<>> /\ writeLog = <<>>
            /\ RegistryPids \in {{e.body.persistent_identifier : e \in reg}
                                 : reg \in InitRegistries}
    IN  /\ ~base_url_valid /\ record.pid # NoPid /\ pc # "send" => aborted_at_send
        /\ Message("configuration_error", NoPid) \in stderr => aborted_at_send

\* The registry URL has no schema and a record with a PID was passed to send.
C9_Witness ==
    /\ ~base_url_valid /\ record.pid # NoPid /\ pc = "aborted"
    /\ Message("configuration_error", NoPid) \in stderr
    /\ total_records > 0

\* C10: a run ends with a nonzero exit status whenever a record was counted
\* faulty or could not be backed up, and with zero when it completes with
\* neither; a run that aborts or dies of an uncaught exception ends nonzero.
C10_ExitStatus ==
    /\ pc = "done" =>
          (exit_code # 0 <=> (faulty_records > 0 \/ unsaved_records > 0))
    /\ pc \in {"aborted", "crashed"} => exit_code # 0
    /\ pc \notin {"done", "aborted", "crashed"} => exit_code = 0

\* Every record was sent, one could not be backed up: the run completes and
\* exits nonzero.
C10_Witness ==
    /\ pc = "done" /\ exit_code = 1
    /\ faulty_records = 0 /\ unsaved_records > 0

\* C30: in the summary of every run the faulty count is at most the
\* total-harvested count: each record counted as faulty is also counted among
\* the harvested records (a step that counts a record as faulty counts one
\* record, the one the loop holds and has counted as harvested), including
\* records whose resource type could not be determined: the run the listing
\* delivers such a record to goes on towards its summary, in which the record
\* is counted.
C30_FaultyAtMostHarvested ==
    [][/\ faulty_records' <= total_records'
       /\ faulty_records' # faulty_records =>
             /\ faulty_records' = faulty_records + 1
             /\ pc \in SendPcs /\ record # NoRecord
             /\ total_records' = total_records
       /\ log' # log /\ log'[Len(log')].message = "Success" =>
             /\ log'[Len(log')].total = total_records
             /\ log'[Len(log')].faulty = faulty_records
             /\ log'[Len(log')].faulty <= log'[Len(log')].total
       /\ pc = "fetch" /\ harvested' # harvested => pc' \in {"send", "fetch"}
       ]_vars

\* ------------------------------------------------------------------ mapper
\* A mapping method of RecordParser called on its own: no run is going on.
RunIdle ==
    /\ automatic_delete = FALSE /\ pause_between_records = FALSE
    /\ save_records_locally = FALSE /\ base_url_valid = TRUE
    /\ log = <<>> /\ harvested_date = NoDate
    /\ total_records = 0 /\ faulty_records = 0 /\ unsaved_records = 0
    /\ pc = "start" /\ record = NoRecord /\ exit_code = 0 /\ stderr = {}
    /\ harvested = <<>> /\ unchanged = <<>> /\ full_listed = FALSE
    /\ listings = <<>> /\ error_messages = 0
    /\ registry = {} /\ nextId = 1 /\ metax_id = NoId
    /\ opLog = <<>> /\ writeLog = <<>>
    /\ url = NoUrl /\ results = <<>> /\ retained_pids = {}
    /\ to_delete = {} /\ pids_to_be_deleted = {}
    /\ backup = NoBackup

run_state == <<config_vars, run_vars, source_vars, registry_vars,
               deletion_vars, backup>>

\* A dict without keys.
EmptyDict == <<>>

\* ---- access rights
MaxLicences == 2

license_mappings ==
    ("CLARIN_PUB" :> "http://uri.suomi.fi/codelist/fairdata/license/code/ClarinPUB-1.0")
    @@ ("CLARIN_ACA" :> "http://uri.suomi.fi/codelist/fairdata/license/code/ClarinACA-1.0")
    @@ ("CLARIN_ACA-NC" :> "http://uri.suomi.fi/codelist/fairdata/license/code/ClarinACA+NC-1.0")
    @@ ("CLARIN_RES" :> "http://uri.suomi.fi/codelist/fairdata/license/code/ClarinRES-1.0")
    @@ ("other" :> "http://uri.suomi.fi/codelist/fairdata/license/code/other")
    @@ ("underNegotiation" :> "http://uri.suomi.fi/codelist/fairdata/license/code/undernegotiation")
    @@ ("proprietary" :> "http://uri.suomi.fi/codelist/fairdata/license/code/other-closed")
    @@ ("CC-BY" :> "http://uri.suomi.fi/codelist/fairdata/license/code/CC-BY-1.0")
    @@ ("CC-BY-ND" :> "http://uri.suomi.fi/codelist/fairdata/license/code/CC-BY-ND-4.0")
    @@ ("CC-BY-NC" :> "http://uri.suomi.fi/codelist/fairdata/license/code/CC-BY-NC-2.0")
    @@ ("CC-BY-SA" :> "http://uri.suomi.fi/codelist/fairdata/license/code/CC-BY-SA-3.0")
    @@ ("CC-BY-NC-ND" :> "http://uri.suomi.fi/codelist/fairdata/license/code/CC-BY-NC-ND-4.0")
    @@ ("CC-BY-NC-SA" :> "http://uri.suomi.fi/codelist/fairdata/license/code/CC-BY-NC-SA-4.0")
    @@ ("CC-ZERO" :> "http://uri.suomi.fi/codelist/fairdata/license/code/CC0-1.0")
    @@ ("ApacheLicence_2.0" :> "http://uri.suomi.fi/codelist/fairdata/license/code/Apache-2.0")

\* The texts of cmd:licence elements: the codes of the table and one that the
\* table does not have.
LicenceTexts == DOMAIN license_mappings \cup {"MSCommons-BY"}

\* The texts of cmd:availability ("None": the element is missing).
Availabilities ==
    {"available-unrestrictedUse", "available-restrictedUse",
     "notAvailableThroughMetaShare", "None"}

\* What _get_license_url_from_documentation comes to: no licence URL, the URL
\* of a licence document, or the AttributeError of `doc_element.text.strip()`
\* on a documentUnstructured element without text.
DocumentationUrls ==
    {"None", "http://urn.fi/urn:nbn:fi:lb-2022090204", "AttributeError"}

AccessTypeOpen == "http://uri.suomi.fi/codelist/fairdata/access_type/code/open"
AccessTypeRestricted ==
    "http://uri.suomi.fi/codelist/fairdata/access_type/code/restricted"
RestrictionResearch ==
    "http://uri.suomi.fi/codelist/fairdata/restriction_grounds/code/research"
RestrictionOther ==
    "http://uri.suomi.fi/codelist/fairdata/restriction_grounds/code/other"

\* "ClarinACA" in license["url"], over the URLs of the table.
ContainsClarinACA(license_url) ==
    license_url \in {license_mappings["CLARIN_ACA"],
                     license_mappings["CLARIN_ACA-NC"]}

\* A licence whose code the table lacks is mapped to the 'other' licence.
_get_license_information_defaulting(license_text, custom_url) ==
    [url |-> IF license_text \in DOMAIN license_mappings
             THEN license_mappings[license_text]
             ELSE license_mappings["other"]]

\* The documentation is read for a licence of the table only, so its
\* AttributeError is raised for such a licence only.
_get_license_information(license_text, custom_url) ==
    IF license_text \in DOMAIN license_mappings
    THEN IF custom_url = "AttributeError"
         THEN [raises |-> "AttributeError"]
         ELSE IF custom_url # "None"
         THEN [url |-> license_mappings[license_text], custom_url |-> custom_url]
         ELSE [url |-> license_mappings[license_text]]
    ELSE EmptyDict

_get_access_type(availability) ==
    [url |-> IF availability = "available-unrestrictedUse"
             THEN AccessTypeOpen ELSE AccessTypeRestricted]

_map_access_rights(x) ==
    LET licenses == [i \in 1..Len(x.licences) |->
                        _get_license_information(x.licences[i],
                                                 x.documentation_url)]
        found == SelectSeq(licenses, LAMBDA license : license # EmptyDict)
        from_licenses ==
            IF \E i \in 1..Len(found) : ContainsClarinACA(found[i].url)
            THEN {RestrictionResearch} ELSE {}
        license_list == IF found = <<>>
                        THEN << [url |-> license_mappings["other"]] >>
                        ELSE found
        access_type == _get_access_type(x.availability)
        restriction_grounds_urls ==
            IF access_type.url = AccessTypeRestricted /\ from_licenses = {}
            THEN {RestrictionOther} ELSE from_licenses
    IN  IF \E i \in 1..Len(licenses) : "raises" \in DOMAIN licenses[i]
        THEN [status |-> "AttributeError"]
        ELSE IF x.availability = "None" THEN [status |-> "IndexError"]
        ELSE [status |-> "ok",
              value |->
                  IF restriction_grounds_urls # {}
                  THEN [license |-> license_list, access_type |-> access_type,
                        restriction_grounds |->
                            {[url |-> u] : u \in restriction_grounds_urls}]
                  ELSE [license |-> license_list, access_type |-> access_type]]

InitAccessRights ==
    /\ RunIdle
    /\ xml \in [licences : SeqsUpTo(LicenceTexts, MaxLicences),
                availability : Availabilities,
                documentation_url : DocumentationUrls]
    /\ result = NoResult
    /\ lru_cache = NoCache
    /\ vocabulary_log = <<>>

map_access_rights ==
    /\ result = NoResult
    /\ result' = _map_access_rights(xml)
    /\ UNCHANGED <<run_state, xml, lru_cache, vocabulary_log>>

NextAccessRights == map_access_rights

SpecAccessRights == InitAccessRights /\ [][NextAccessRights]_vars

\* C11: in every access_rights block the mapper produces, the access_type URL
\* ends in /open if and only if the block has no restriction_grounds key; an
\* open record with a CLARIN_ACA-family licence carries no restriction grounds.
C11_OpenIffNoRestrictionGrounds ==
    result.status = "ok" =>
        ((result.value.access_type.url = AccessTypeOpen)
            <=> ("restriction_grounds" \notin DOMAIN result.value))

\* The URLs expected for a list of licence texts: that of each text the table
\* has, in order.
RECURSIVE MappedUrls(_)
MappedUrls(texts) ==
    IF texts = <<>> THEN <<>>
    ELSE (IF Head(texts) \in DOMAIN license_mappings
          THEN <<license_mappings[Head(texts)]>> ELSE <<>>)
         \o MappedUrls(Tail(texts))

\* C16: the license list of a mapped record is never empty and holds only
\* URIs of the license table: every licence element with a code of the table
\* contributes the URI of its code, every other element contributes nothing,
\* and when no element contributes the list is the 'other' licence alone.
C16_LicenseList ==
    result.status = "ok" =>
        LET urls == [i \in 1..Len(result.value.license) |->
                        result.value.license[i].url]
        IN  /\ urls # <<>>
            /\ \A i \in 1..Len(urls) :
                  \E code \in DOMAIN license_mappings : urls[i] = license_mappings[code]
            /\ urls = IF MappedUrls(xml.licences) = <<>>
                      THEN << license_mappings["other"] >>
                      ELSE MappedUrls(xml.licences)
            /\ MappedUrls(xml.licences) = <<>> =>
                  result.value.license = << [url |-> license_mappings["other"]] >>

\* A record with one licence the table has and one it lacks: one entry.
C16_Witness ==
    /\ result.status = "ok"
    /\ Len(xml.licences) = 2 /\ Len(result.value.license) = 1
    /\ xml.licences[1] \notin DOMAIN license_mappings
    /\ result.value.license[1].url = license_mappings["CC-BY"]

\* C26: a license entry of a mapped record carries a custom_url only when
\* its source licence code is CLARIN_RES or other; entries of every other
\* licence family never carry a custom_url, whatever the documentation
\* elements of the record contain.
C26_CustomUrlOnlyForResAndOther ==
    result.status = "ok" =>
        \A i \in 1..Len(result.value.license) :
           "custom_url" \in DOMAIN result.value.license[i] =>
              result.value.license[i].url
                 \in {license_mappings["CLARIN_RES"], license_mappings["other"]}

\* ---- actors
supported_languages == <<"en", "fi", "und">>

\* Python's None as the value of a property.
None == "None"

\* The keys of a name in a language, as _etree_to_dict builds them.
givenName(language) == "givenName_" \o language
surname(language) == "surname_" \o language
organizationName(language) == "organizationName_" \o language

\* The data of an actor is a dict: personInfo with the person's email when the
\* element describes a person, organizationInfo when it has an affiliation or
\* describes an organization.
PersonInfoTexts ==
    ("givenName_en" :> "John") @@ ("surname_en" :> "Smith")
    @@ ("givenName_fi" :> "Jussi") @@ ("surname_fi" :> "Seppa")
    @@ ("givenName_und" :> "J.") @@ ("surname_und" :> "S.")

PersonInfos ==
    {[key \in keys |-> PersonInfoTexts[key]] : keys \in SUBSET DOMAIN PersonInfoTexts}

RECURSIVE name_from(_, _)
name_from(person_info, i) ==
    IF i > Len(supported_languages) THEN [status |-> "ok", value |-> None]
    ELSE LET language == supported_languages[i]
         IN  IF givenName(language) \in DOMAIN person_info
             THEN IF surname(language) \in DOMAIN person_info
                  THEN [status |-> "ok",
                        value |-> person_info[givenName(language)] \o " "
                                      \o person_info[surname(language)]]
                  ELSE [status |-> "KeyError"]
             ELSE IF surname(language) \in DOMAIN person_info
                  THEN [status |-> "ok", value |-> person_info[surname(language)]]
                  ELSE name_from(person_info, i + 1)

name(data) ==
    IF "personInfo" \notin DOMAIN data THEN [status |-> "ok", value |-> None]
    ELSE name_from(data.personInfo, 1)

InitName ==
    /\ RunIdle
    /\ xml \in [personInfo : PersonInfos,
                email : {"john.smith@example.com"},
                organizationInfo : {("organizationName_en" :> "University of Helsinki")}]
               \cup {[organizationInfo |-> ("organizationName_en" :> "University of Helsinki")]}
    /\ result = NoResult
    /\ lru_cache = NoCache
    /\ vocabulary_log = <<>>

actor_name ==
    /\ result = NoResult
    /\ result' = name(xml)
    /\ UNCHANGED <<run_state, xml, lru_cache, vocabulary_log>>

NextName == actor_name

SpecName == InitName /\ [][NextName]_vars

\* The languages of a personInfo that offer a surname.
RECURSIVE FirstWithSurname(_, _)
FirstWithSurname(person_info, i) ==
    IF i > Len(supported_languages) THEN 0
    ELSE IF surname(supported_languages[i]) \in DOMAIN person_info THEN i
    ELSE FirstWithSurname(person_info, i + 1)

\* C15: the name of an actor is that of the first language in the order en,
\* fi, und which offers a surname, the given name of that language put before
\* it when present; a language without a surname is skipped, so the English
\* name wins over the Finnish one whenever both offer a surname.
C15_NameOfFirstLanguageWithSurname ==
    (result # NoResult /\ "personInfo" \in DOMAIN xml) =>
        LET i == FirstWithSurname(xml.personInfo, 1)
            language == supported_languages[i]
        IN  /\ result.status = "ok"
            /\ i = 0 => result.value = None
            /\ i # 0 =>
                  result.value =
                      IF givenName(language) \in DOMAIN xml.personInfo
                      THEN xml.personInfo[givenName(language)] \o " "
                               \o xml.personInfo[surname(language)]
                      ELSE xml.personInfo[surname(language)]

\* ---- the actors of a record
MaxActors == 3

Roles == <<"creator", "publisher", "curator", "rights_holder">>

\* Persons (each language with a given name has its surname) and organizations.
JohnSmith ==
    [personInfo |-> ("givenName_en" :> "John") @@ ("surname_en" :> "Smith"),
     email |-> "john.smith@example.com",
     organizationInfo |-> ("organizationName_en" :> "University of Helsinki")
                          @@ ("email" :> "helsinki@example.com")]
MaijaVirtanen ==
    [personInfo |-> ("givenName_fi" :> "Maija") @@ ("surname_fi" :> "Virtanen"),
     email |-> "maija.virtanen@example.com",
     organizationInfo |-> ("organizationName_fi" :> "Kotimaisten kielten keskus")
                          @@ ("email" :> "kotus@example.com")]
PersonWithoutAffiliation ==
    [personInfo |-> ("surname_en" :> "Doe"), email |-> "doe@example.com"]
UniversityOfHelsinki ==
    [organizationInfo |-> ("organizationName_en" :> "University of Helsinki")
                          @@ ("email" :> "helsinki@example.com")]
FinClarin ==
    [organizationInfo |-> ("organizationName_en" :> "FIN-CLARIN")
                          @@ ("email" :> "fin-clarin@example.com")]
OrganizationNamedInUnd ==
    [organizationInfo |-> ("organizationName_und" :> "CSC")
                          @@ ("email" :> "csc@example.com")]

Persons == {JohnSmith, MaijaVirtanen, PersonWithoutAffiliation}
Organizations == {UniversityOfHelsinki, FinClarin, OrganizationNamedInUnd}

\* The elements the xpaths of the roles find: persons under every role,
\* organizations as distribution rights holders and as IPR holders.
ActorElements ==
    {[role |-> role, data |-> data] :
        role \in {"creator", "curator"}, data \in Persons}
    \cup {[role |-> role, data |-> data] :
        role \in {"publisher", "rights_holder"}, data \in Persons \cup Organizations}

email(data) == IF "email" \in DOMAIN data THEN data.email ELSE None

has_person_data(data) == name(data).value # None

\* The dash of the CSC key is the em dash U+2014, a character the strings of
\* this language cannot hold: it is written as its escape, backslash u2014,
\* so that the name with a hyphen in its place is not a key, as in the code.
organization_codes ==
    ("Aalto University" :> "10076")
    @@ ("CSC \\u2014 IT Center for Science Ltd" :> "09206320")
    @@ ("Centre for Applied Language Studies" :> "01906-213060")
    @@ ("FIN-CLARIN" :> "01901")
    @@ ("National Library of Finland" :> "01901-H981")
    @@ ("South Eastern Finland University of Applied Sciences" :> "10118")
    @@ ("University of Eastern Finland" :> "10088")
    @@ ("University of Helsinki" :> "01901")
    @@ ("University of Jyväskylä" :> "01906")
    @@ ("University of Oulu" :> "01904")
    @@ ("University of Tampere" :> "10122")
    @@ ("University of Turku" :> "10089")

url_base == "http://uri.suomi.fi/codelist/fairdata/organization/code"

_organization_uri(data) ==
    LET info == data.organizationInfo
        uri(organization_name) ==
            IF organization_name \in DOMAIN organization_codes
            THEN [status |-> "ok",
                  value |-> url_base \o "/" \o organization_codes[organization_name]]
            ELSE [status |-> "UnknownOrganizationException"]
    IN  IF "organizationName_en" \in DOMAIN info THEN uri(info["organizationName_en"])
        ELSE IF "organizationName_fi" \in DOMAIN info THEN uri(info["organizationName_fi"])
        ELSE [status |-> "UnableToParseOrganizationInfoException"]

\* The properties of the organization are None for a person without affiliation.
_none_if_person_witout_affiliation(data) == "organizationInfo" \notin DOMAIN data

organization_name(data) ==
    LET info == data.organizationInfo
        languages == {supported_languages[i] : i \in 1..Len(supported_languages)}
    IN  [language \in {l \in languages : organizationName(l) \in DOMAIN info} |->
            info[organizationName(language)]]

organization_homepage(data) ==
    IF "url" \in DOMAIN data.organizationInfo
    THEN [url |-> data.organizationInfo["url"]] ELSE None

organization_email(data) == data.organizationInfo["email"]

_organization_dict(data) ==
    IF _none_if_person_witout_affiliation(data)
    THEN [status |-> "ok", value |-> None]
    ELSE LET uri == _organization_uri(data)
         IN  IF uri.status = "ok"
             THEN [status |-> "ok", value |-> [url |-> uri.value]]
             ELSE IF uri.status = "UnknownOrganizationException"
             THEN [status |-> "ok",
                   value |-> [pref_label |-> organization_name(data),
                              homepage |-> organization_homepage(data),
                              email |-> organization_email(data)]]
             ELSE [status |-> uri.status]

__eq__(self, other) ==
    LET own == _organization_dict(self)
        others == _organization_dict(other)
        organizations ==
            IF own.status # "ok" THEN [status |-> own.status]
            ELSE IF others.status # "ok" THEN [status |-> others.status]
            ELSE [status |-> "ok", value |-> own.value = others.value]
    IN  IF has_person_data(self)
        THEN IF name(self).value # name(other).value \/ email(self) # email(other)
             THEN [status |-> "ok", value |-> FALSE]
             ELSE organizations
        ELSE IF organizations.status # "ok" THEN organizations
             ELSE [status |-> "ok",
                   value |-> organizations.value /\ ~has_person_data(other)]

\* new_actor in actors, and actors.index(new_actor): 0 when not in the list.
RECURSIVE index(_, _, _)
index(actors, new_actor, i) ==
    IF i > Len(actors) THEN [status |-> "ok", value |-> 0]
    ELSE LET eq == __eq__(actors[i].data, new_actor.data)
         IN  IF eq.status # "ok" THEN [status |-> eq.status]
             ELSE IF eq.value THEN [status |-> "ok", value |-> i]
             ELSE index(actors, new_actor, i + 1)

\* The roles of the new mention are dropped.
add_roles_dropped(actor, roles) == actor

add_roles(actor, roles) == [actor EXCEPT !.roles = @ \cup roles]

\* sorted(self.roles)
sorted(roles) ==
    SelectSeq(<<"creator", "curator", "publisher", "rights_holder">>,
              LAMBDA role : role \in roles)

to_metax_dict(actor) ==
    LET organization == _organization_dict(actor.data)
    IN  IF organization.status # "ok" THEN [status |-> organization.status]
        ELSE [status |-> "ok",
              value |->
                  IF has_person_data(actor.data)
                  THEN [roles |-> sorted(actor.roles),
                        person |-> [name |-> name(actor.data).value,
                                    email |-> email(actor.data)],
                        organization |-> organization.value]
                  ELSE [roles |-> sorted(actor.roles),
                        organization |-> organization.value]]

MultiplePublishers ==
    [roles |-> <<"publisher">>,
     organization |->
        [pref_label |->
            [en |-> "Multiple publishers, check distribution rights holders in original metadata by following its persistent identifier"]]]

\* Actors left without a role stay in the list.
_replace_multiple_publishers_with_explanation_keeping(actor_dicts) ==
    [i \in 1..Len(actor_dicts) |->
        [actor_dicts[i] EXCEPT !.roles =
            SelectSeq(@, LAMBDA role : role # "publisher")]]
    \o << MultiplePublishers >>

_replace_multiple_publishers_with_explanation(actor_dicts) ==
    LET removed == [i \in 1..Len(actor_dicts) |->
                       [actor_dicts[i] EXCEPT !.roles =
                           SelectSeq(@, LAMBDA role : role # "publisher")]]
    IN  SelectSeq(removed, LAMBDA actor : actor.roles # <<>>)
        \o << MultiplePublishers >>

\* The elements the xpaths of a role find: for the publishers and the rights
\* holders the persons before the organizations.
role_elements(x, role) ==
    LET of_role == SelectSeq(x.actors, LAMBDA e : e.role = role)
    IN  SelectSeq(of_role, LAMBDA e : "personInfo" \in DOMAIN e.data)
        \o SelectSeq(of_role, LAMBDA e : "personInfo" \notin DOMAIN e.data)

\* The elements in the order of the loops, role by role.
actor_role_elements(x) ==
    role_elements(x, Roles[1]) \o role_elements(x, Roles[2])
    \o role_elements(x, Roles[3]) \o role_elements(x, Roles[4])

RECURSIVE merge_actors(_, _)
merge_actors(curator_elements, actors) ==
    IF curator_elements = <<>> THEN [status |-> "ok", value |-> actors]
    ELSE LET new_actor == [data |-> Head(curator_elements).data,
                           roles |-> {Head(curator_elements).role}]
             found == index(actors, new_actor, 1)
         IN  IF \/ _none_if_person_witout_affiliation(new_actor.data)
                \/ organization_name(new_actor.data) = EmptyDict
             THEN [status |-> "RecordParsingError"]
             ELSE IF found.status # "ok" THEN [status |-> "RecordParsingError"]
             ELSE IF found.value # 0
             THEN merge_actors(Tail(curator_elements),
                               [actors EXCEPT ![found.value] =
                                   add_roles(@, new_actor.roles)])
             ELSE merge_actors(Tail(curator_elements), Append(actors, new_actor))

\* The check for a publisher is lost.
publisher_actors_unchecked(actors) == 1

publisher_actors(actors) ==
    Cardinality({i \in 1..Len(actors) : "publisher" \in actors[i].roles})

\* _get_actors after its loops (`merged` is their outcome): the checks for a
\* creator and a publisher, and the export.
_get_actors(merged) ==
    LET actors == merged.value
        dicts == [i \in 1..Len(actors) |-> to_metax_dict(actors[i])]
        actor_dicts == [i \in 1..Len(actors) |-> dicts[i].value]
    IN  IF merged.status # "ok" THEN merged
        ELSE IF \A i \in 1..Len(actors) : "creator" \notin actors[i].roles
        THEN [status |-> "RecordParsingError"]
        ELSE IF publisher_actors(actors) = 0
        THEN [status |-> "RecordParsingError"]
        ELSE IF \E i \in 1..Len(actors) : dicts[i].status # "ok"
        THEN [status |-> "UnableToParseOrganizationInfoException"]
        ELSE [status |-> "ok",
              value |-> IF publisher_actors(actors) > 1
                        THEN _replace_multiple_publishers_with_explanation(actor_dicts)
                        ELSE actor_dicts]

InitActors ==
    /\ RunIdle
    /\ xml \in [actors : SeqsUpTo(ActorElements, MaxActors)]
    /\ result = NoResult
    /\ lru_cache = NoCache
    /\ vocabulary_log = <<>>

get_actors ==
    /\ result = NoResult
    /\ \E merged \in {merge_actors(actor_role_elements(xml), <<>>)} :
          result' = _get_actors(merged)
    /\ UNCHANGED <<run_state, xml, lru_cache, vocabulary_log>>

NextActors == get_actors

SpecActors == InitActors /\ [][NextActors]_vars

\* An exported actor without its roles: the person and the organization.
Unroled(actor_dict) ==
    [key \in DOMAIN actor_dict \ {"roles"} |-> actor_dict[key]]

\* What is exported of the actor of an element, and whether two elements
\* are mentions of the same actor: same name, email and organization export.
Exported(element) ==
    Unroled(to_metax_dict([data |-> element.data, roles |-> {}]).value)

SameIdentity(e1, e2) == Exported(e1) = Exported(e2)

Mentions == {xml.actors[i] : i \in 1..Len(xml.actors)}

\* The roles under which the actor of an element is mentioned in the record.
MentionRoles(element) ==
    {e.role : e \in {m \in Mentions : SameIdentity(m, element)}}

\* Two or more distinct actors are publishers.
SeveralPublishers ==
    \E e1, e2 \in Mentions :
        /\ e1.role = "publisher" /\ e2.role = "publisher"
        /\ ~SameIdentity(e1, e2)

\* The entries of the returned list which have a role.
EntriesWith(role) ==
    {i \in 1..Len(result.value) :
        \E k \in 1..Len(result.value[i].roles) : result.value[i].roles[k] = role}

\* The entries of the returned list for the actor of an element.
EntriesOf(element) ==
    {i \in 1..Len(result.value) : Unroled(result.value[i]) = Exported(element)}

\* C12: when two or more distinct actors are publishers after merging, the
\* returned list has exactly one entry with the publisher role, the
\* 'Multiple publishers' organization with roles [publisher]; a real actor
\* with another role is returned with all its other roles, and a real actor
\* that was only a publisher is not returned.
C12_MultiplePublishersCollapsed ==
    (result.status = "ok" /\ SeveralPublishers) =>
        /\ Cardinality(EntriesWith("publisher")) = 1
        /\ \A i \in EntriesWith("publisher") : result.value[i] = MultiplePublishers
        /\ \A e \in Mentions :
              LET others == MentionRoles(e) \ {"publisher"}
              IN  IF others = {} THEN EntriesOf(e) = {}
                  ELSE /\ Cardinality(EntriesOf(e)) = 1
                       /\ \A i \in EntriesOf(e) :
                             result.value[i].roles = sorted(others)

\* Two publishers, one of them a creator as well, the other nothing else.
C12_Witness ==
    /\ result.status = "ok" /\ SeveralPublishers
    /\ \E e \in Mentions : MentionRoles(e) = {"creator", "publisher"}
    /\ \E e \in Mentions : MentionRoles(e) = {"publisher"} /\ EntriesOf(e) = {}
    /\ Len(result.value) = 2

\* C13: every returned actor list has at least one entry with the creator
\* role and exactly one entry with the publisher role; a record without a
\* creator element or without a publisher element raises RecordParsingError.
C13_CreatorAndOnePublisher ==
    /\ result.status = "ok" =>
          /\ EntriesWith("creator") # {}
          /\ Cardinality(EntriesWith("publisher")) = 1
    /\ (/\ result # NoResult
        /\ \/ \A e \in Mentions : e.role # "creator"
           \/ \A e \in Mentions : e.role # "publisher")
       => result.status = "RecordParsingError"

\* Two publisher elements of one actor and a creator: a list of two entries.
C13_Witness ==
    /\ result.status = "ok" /\ ~SeveralPublishers
    /\ Cardinality({i \in 1..Len(xml.actors) : xml.actors[i].role = "publisher"}) = 2
    /\ Cardinality(EntriesWith("publisher")) = 1
    /\ Cardinality(EntriesWith("creator")) = 1

\* C14: two mentions of one actor (same name, email and organization export)
\* under different roles give exactly one returned entry, with the union of
\* the roles of the mentions, whichever mention comes first; so no two
\* entries of a returned list are the same actor.
C14_MergedRolesAreUnion ==
    result.status = "ok" =>
        /\ \A e1, e2 \in Mentions :
              (SameIdentity(e1, e2) /\ e1.role # e2.role) =>
                  /\ Cardinality(EntriesOf(e1)) = 1
                  /\ \A i \in EntriesOf(e1) :
                        result.value[i].roles = sorted(MentionRoles(e1))
        /\ \A i, j \in 1..Len(result.value) :
              i # j => Unroled(result.value[i]) # Unroled(result.value[j])

\* C14 amended: the role set is the union of the roles of the mentions, less
\* the publisher role when two or more distinct actors of the record are
\* publishers (then the publisher role goes to the 'Multiple publishers'
\* entry alone).
C14_MergedRolesAreUnionLessCollapsedPublisher ==
    result.status = "ok" =>
        /\ \A e1, e2 \in Mentions :
              (SameIdentity(e1, e2) /\ e1.role # e2.role) =>
                  /\ Cardinality(EntriesOf(e1)) = 1
                  /\ \A i \in EntriesOf(e1) :
                        result.value[i].roles =
                            sorted(MentionRoles(e1) \
                                   (IF SeveralPublishers THEN {"publisher"} ELSE {}))
        /\ \A i, j \in 1..Len(result.value) :
              i # j => Unroled(result.value[i]) # Unroled(result.value[j])

\* The element found later in the loops comes first in the record, and the
\* actor is returned once with both roles.
C14_Witness ==
    /\ result.status = "ok" /\ Len(xml.actors) >= 2
    /\ xml.actors[1].role = "publisher" /\ xml.actors[2].role = "creator"
    /\ SameIdentity(xml.actors[1], xml.actors[2])
    /\ \E i \in EntriesOf(xml.actors[1]) :
          result.value[i].roles = <<"creator", "publisher">>

\* ---- dates
\* A date text is the sequence of its digit groups and separators.
DatetimeFormat ==
    <<"%Y", "-", "%m", "-", "%d", "T", "%H", ":", "%M", ":", "%S", "Z">>
DateFormat == <<"%Y", "-", "%m", "-", "%d">>

\* The numbers of the digit groups of the texts below (a group may be padded
\* with a zero or, as a day may be, with a space), and back (two digits,
\* zero-padded; four for the year).
DigitGroups ==
    ("2017" :> 2017) @@ ("00" :> 0) @@ ("02" :> 2) @@ ("06" :> 6) @@ ("08" :> 8)
    @@ ("8" :> 8) @@ (" 8" :> 8) @@ ("09" :> 9) @@ ("9" :> 9) @@ (" 9" :> 9)
    @@ ("30" :> 30) @@ ("31" :> 31) @@ ("52" :> 52)
Padded ==
    (2017 :> "2017") @@ (0 :> "00") @@ (2 :> "02") @@ (6 :> "06") @@ (8 :> "08")
    @@ (9 :> "09") @@ (30 :> "30") @@ (31 :> "31") @@ (52 :> "52")

DirectiveRange ==
    ("%Y" :> 1..9999) @@ ("%m" :> 1..12) @@ ("%d" :> 1..31)
    @@ ("%H" :> 0..23) @@ ("%M" :> 0..59) @@ ("%S" :> 0..59)

\* The digits a directive matches: four for %Y, one or two for the others.
DirectiveWidth(directive) == IF directive = "%Y" THEN {4} ELSE {1, 2}

DaysInMonth(year, month) ==
    IF month = 2
    THEN IF (year % 4 = 0 /\ year % 100 # 0) \/ year % 400 = 0 THEN 29 ELSE 28
    ELSE IF month \in {4, 6, 9, 11} THEN 30 ELSE 31

\* re.IGNORECASE over the literal characters of the formats: the text a
\* literal is compared by.
IGNORECASE(text) == IF text = "T" THEN "t" ELSE IF text = "Z" THEN "z" ELSE text

\* datetime.strptime: the text matches the format group by group (a literal
\* whatever its case, a space-padded group for %d only), and the day exists
\* in the month.
strptime(date_str, format) ==
    LET matches ==
            /\ Len(date_str) = Len(format)
            /\ \A i \in 1..Len(format) :
                  IF format[i] \in DOMAIN DirectiveRange
                  THEN /\ date_str[i] \in DOMAIN DigitGroups
                       /\ Len(date_str[i]) \in DirectiveWidth(format[i])
                       /\ date_str[i] \in {" 8", " 9"} => format[i] = "%d"
                       /\ DigitGroups[date_str[i]] \in DirectiveRange[format[i]]
                  ELSE IGNORECASE(date_str[i]) = IGNORECASE(format[i])
        field(directive, default) ==
            IF \E i \in 1..Len(format) : format[i] = directive
            THEN DigitGroups[date_str[CHOOSE i \in 1..Len(format) : format[i] = directive]]
            ELSE default
        datetime_obj ==
            [year |-> field("%Y", 1900), month |-> field("%m", 1),
             day |-> field("%d", 1), hour |-> field("%H", 0),
             minute |-> field("%M", 0), second |-> field("%S", 0)]
    IN  IF matches /\ datetime_obj.day <= DaysInMonth(datetime_obj.year, datetime_obj.month)
        THEN [status |-> "ok", value |-> datetime_obj]
        ELSE [status |-> "ValueError"]

\* datetime_obj.strftime("%Y-%m-%dT%H:%M:%SZ")
strftime(datetime_obj) ==
    <<Padded[datetime_obj.year], "-", Padded[datetime_obj.month], "-",
      Padded[datetime_obj.day], "T", Padded[datetime_obj.hour], ":",
      Padded[datetime_obj.minute], ":", Padded[datetime_obj.second], "Z">>

\* What the xpath of a date finds: no text node, or the text of the element.
DateTexts ==
    { <<>>,
      << <<"2017", "-", "09", "-", "08", "T", "06", ":", "52", ":", "31", "Z">> >>,
      << <<"2017", "-", "09", "-", "08">> >>,
      << <<"2017", "-", "9", "-", "8">> >>,
      << <<"2017", "-", "09", "-", " 8">> >>,
      << <<"2017", "-", " 9", "-", "08">> >>,
      << <<"2017", "-", "09", "-", "08", "t", "06", ":", "52", ":", "31", "z">> >>,
      << <<"08", ".", "09", ".", "2017">> >>,
      << <<"2017", "-", "02", "-", "30">> >>,
      << <<"2017", "-", "09", "-", "08", "T", "06", ":", "52", ":", "31">> >>,
      << <<"2017">> >> }

_get_datetime(text_nodes) ==
    IF text_nodes = <<>> THEN [status |-> "IndexError"]
    ELSE LET date_str == text_nodes[1]
             datetime_obj ==
                 IF strptime(date_str, DatetimeFormat).status = "ok"
                 THEN strptime(date_str, DatetimeFormat)
                 ELSE strptime(date_str, DateFormat)
         IN  IF date_str = <<>> THEN [status |-> "RecordParsingError"]
             ELSE IF datetime_obj.status # "ok" THEN datetime_obj
             ELSE [status |-> "ok", value |-> strftime(datetime_obj.value)]

InitDates ==
    /\ RunIdle
    /\ xml \in [datestamp : DateTexts, MdCreationDate : DateTexts]
    /\ result = NoResult
    /\ lru_cache = NoCache
    /\ vocabulary_log = <<>>

\* to_dict evaluates "modified", then "created".
get_modified ==
    /\ result = NoResult
    /\ LET modified == _get_datetime(xml.datestamp)
       IN  result' = IF modified.status = "ok"
                     THEN [status |-> "ok", value |-> [modified |-> modified.value]]
                     ELSE modified
    /\ UNCHANGED <<run_state, xml, lru_cache, vocabulary_log>>

get_created ==
    /\ result.status = "ok" /\ "created" \notin DOMAIN result.value
    /\ LET created == _get_datetime(xml.MdCreationDate)
       IN  result' = IF created.status = "ok"
                     THEN [status |-> "ok",
                           value |-> [modified |-> result.value.modified,
                                      created |-> created.value]]
                     ELSE created
    /\ UNCHANGED <<run_state, xml, lru_cache, vocabulary_log>>

NextDates == get_modified \/ get_created

SpecDates == InitDates /\ [][NextDates]_vars

\* A date is missing, or its text is in neither of the two forms.
MissingOrUnparseable(text_nodes) ==
    \/ text_nodes = <<>>
    \/ /\ strptime(text_nodes[1], DatetimeFormat).status # "ok"
       /\ strptime(text_nodes[1], DateFormat).status # "ok"

\* The mapping of the dates has ended (in a failure, or with both dates).
DatesMapped ==
    /\ result # NoResult
    /\ result.status = "ok" => "created" \in DOMAIN result.value

\* C17: mapping a record whose created or modified date is missing, or is in
\* neither the YYYY-MM-DD nor the YYYY-MM-DDTHH:MM:SSZ form, fails with a
\* RecordParsingError; no default date is put in its place and no other
\* exception type escapes.
C17_BadDateIsRecordParsingError ==
    (/\ DatesMapped
     /\ \/ MissingOrUnparseable(xml.datestamp)
        \/ MissingOrUnparseable(xml.MdCreationDate))
    => result.status = "RecordParsingError"

\* ---- language vocabulary
MaxCalls == 3

DefaultEndpoint ==
    "https://metax.fairdata.fi/es/reference_data/language/_search?size=10000"
Endpoints == {DefaultEndpoint, "https://metax.demo.fairdata.fi/es/reference_data/language/_search"}

LanguageUris ==
    {"http://lexvo.org/id/iso639-3/fin", "http://lexvo.org/id/iso639-3/eng",
     "http://lexvo.org/id/iso639-5/smi"}

\* What an endpoint answers to a GET: the URIs of its hits, an error status
\* (raise_for_status raises HTTPError), or no answer at all.
Responses ==
    {[status |-> "ok", uris |-> uris] :
        uris \in {LanguageUris, {"http://lexvo.org/id/iso639-3/fin"}}}
    \cup {[status |-> "HTTPError"], [status |-> "ConnectionError"]}

\* The function without the memo: every call makes a request.
_allowed_language_uris_uncached(cache, language_vocabulary_endpoint, response) ==
    IF response.status = "ok"
    THEN [status |-> "ok", value |-> response.uris, cache |-> cache,
          request |-> response.status]
    ELSE [status |-> response.status, cache |-> cache,
          request |-> response.status]

\* functools.lru_cache around the fetch: a memoized endpoint is answered
\* without a request; a return value is memoized, an exception is not.
_allowed_language_uris(cache, language_vocabulary_endpoint, response) ==
    IF language_vocabulary_endpoint \in DOMAIN cache
    THEN [status |-> "ok", value |-> cache[language_vocabulary_endpoint],
          cache |-> cache, request |-> "None"]
    ELSE IF response.status = "ok"
    THEN [status |-> "ok", value |-> response.uris,
          cache |-> (language_vocabulary_endpoint :> response.uris) @@ cache,
          request |-> response.status]
    ELSE [status |-> response.status, cache |-> cache,
          request |-> response.status]

\* Every URI passes for a member of the vocabulary.
language_in_vocabulary_accepting(cache, language_uri, language_vocabulary_endpoint, response) ==
    [status |-> "ok", value |-> TRUE, cache |-> cache, request |-> "None"]

language_in_vocabulary(cache, language_uri, language_vocabulary_endpoint, response) ==
    LET allowed == _allowed_language_uris(cache, language_vocabulary_endpoint,
                                          response)
    IN  IF allowed.status = "ok"
        THEN [status |-> "ok", value |-> language_uri \in allowed.value,
              cache |-> allowed.cache, request |-> allowed.request]
        ELSE allowed

InitVocabulary ==
    /\ RunIdle
    /\ xml = NoXml
    /\ result = NoResult
    /\ lru_cache = NoCache
    /\ vocabulary_log = <<>>

\* A call of language_in_vocabulary; the log keeps the calls since the memo
\* was last cleared, each with the outcome of its request ("None": no
\* request was made).
call_language_in_vocabulary(language_uri, language_vocabulary_endpoint, response) ==
    /\ Len(vocabulary_log) < MaxCalls
    /\ LET call == language_in_vocabulary(lru_cache, language_uri,
                                          language_vocabulary_endpoint, response)
       IN  /\ result' = IF call.status = "ok"
                        THEN [status |-> "ok", value |-> call.value]
                        ELSE [status |-> call.status]
           /\ lru_cache' = call.cache
           /\ vocabulary_log' =
                  Append(vocabulary_log,
                         [endpoint |-> language_vocabulary_endpoint,
                          language_uri |-> language_uri,
                          request |-> call.request,
                          response |-> response])
    /\ UNCHANGED <<run_state, xml>>

\* _allowed_language_uris.cache_clear()
cache_clear ==
    /\ lru_cache' = NoCache
    /\ vocabulary_log' = <<>>
    /\ UNCHANGED <<run_state, xml, result>>

NextVocabulary ==
    \/ \E language_uri \in LanguageUris, endpoint \in Endpoints,
          response \in Responses :
          call_language_in_vocabulary(language_uri, endpoint, response)
    \/ cache_clear

SpecVocabulary == InitVocabulary /\ [][NextVocabulary]_vars

\* The calls of the log for an endpoint.
CallsOf(endpoint) ==
    {i \in 1..Len(vocabulary_log) : vocabulary_log[i].endpoint = endpoint}

\* C18: for an endpoint at most one fetch request is made between two clears
\* of the memo.
C18_OneRequestBetweenClears ==
    \A endpoint \in Endpoints :
        Cardinality({i \in CallsOf(endpoint) :
                        vocabulary_log[i].request # "None"}) <= 1

\* C18 amended: between two clears of the memo at most one fetch of an
\* endpoint succeeds: a call makes no request exactly when an earlier call
\* since the last clear fetched the endpoint successfully (so the first call
\* after a clear makes a request, and a failed fetch is not memoized: the
\* next call requests again); every call after the successful one, for any
\* URI, is answered from the set that fetch returned.
C18_OneSuccessfulRequestBetweenClears ==
    \A endpoint \in Endpoints :
        /\ Cardinality({i \in CallsOf(endpoint) :
                           vocabulary_log[i].request = "ok"}) <= 1
        /\ \A j \in CallsOf(endpoint) :
              /\ vocabulary_log[j].request = "None"
                    <=> \E i \in CallsOf(endpoint) :
                           i < j /\ vocabulary_log[i].request = "ok"
              /\ vocabulary_log[j].request = "ok" =>
                    /\ endpoint \in DOMAIN lru_cache
                    /\ lru_cache[endpoint] = vocabulary_log[j].response.uris
        /\ (/\ vocabulary_log # <<>>
            /\ vocabulary_log[Len(vocabulary_log)].endpoint = endpoint
            /\ vocabulary_log[Len(vocabulary_log)].request \in {"None", "ok"})
           => /\ result.status = "ok"
              /\ result.value =
                    (vocabulary_log[Len(vocabulary_log)].language_uri
                        \in lru_cache[endpoint])

\* A failed fetch, a successful one, and a call answered from the memo
\* although the endpoint would now answer otherwise.
C18_Witness ==
    /\ Len(vocabulary_log) = 3
    /\ \A i \in 1..3 : vocabulary_log[i].endpoint = DefaultEndpoint
    /\ vocabulary_log[1].request = "HTTPError"
    /\ vocabulary_log[2].request = "ok"
    /\ vocabulary_log[3].request = "None"
    /\ vocabulary_log[3].response.status = "ok"
    /\ vocabulary_log[3].response.uris # lru_cache[DefaultEndpoint]
    /\ result = [status |-> "ok", value |-> FALSE]

\* ---- resource languages
MaxLanguages == 2

\* The texts of cmd:languageId.
LanguageCodes == {"fi", "fin", "FI", "en", "smi", "xx"}

\* str.lower on the codes above.
lower(language_code) == IF language_code = "FI" THEN "fi" ELSE language_code

\* iso639.Lang on the lowered codes: the ISO 639-3 and 639-5 codes of the
\* language ("": the language has none); a value outside the table raises
\* InvalidLanguageValue.
Lang ==
    ("fi" :> [pt3 |-> "fin", pt5 |-> ""])
    @@ ("fin" :> [pt3 |-> "fin", pt5 |-> ""])
    @@ ("en" :> [pt3 |-> "eng", pt5 |-> ""])
    @@ ("smi" :> [pt3 |-> "", pt5 |-> "smi"])

\* The lists a set can be turned into: the order of iteration over a set of
\* strings is not fixed.
list(set) ==
    {order \in [1..Cardinality(set) -> set] :
        \A i, j \in 1..Cardinality(set) : i # j => order[i] # order[j]}

\* The loop over the language codes: the URIs kept so far, the memo and the
\* calls of language_in_vocabulary made.
RECURSIVE resource_languages(_, _, _, _, _)
resource_languages(language_codes, iso639_urls, cache, calls, response) ==
    IF language_codes = <<>>
    THEN [status |-> "ok", value |-> iso639_urls, cache |-> cache,
          calls |-> calls]
    ELSE IF lower(Head(language_codes)) \notin DOMAIN Lang
    THEN [status |-> "RecordParsingError", cache |-> cache, calls |-> calls]
    ELSE LET language == Lang[lower(Head(language_codes))]
             language_uri ==
                 IF language.pt3 # ""
                 THEN "http://lexvo.org/id/iso639-3/" \o language.pt3
                 ELSE "http://lexvo.org/id/iso639-5/" \o language.pt5
             in_vocabulary ==
                 language_in_vocabulary(cache, language_uri, DefaultEndpoint,
                                        response)
             called == Append(calls, [endpoint |-> DefaultEndpoint,
                                      language_uri |-> language_uri,
                                      request |-> in_vocabulary.request,
                                      response |-> response])
         IN  IF language.pt3 = "" /\ language.pt5 = ""
             THEN [status |-> "RecordParsingError", cache |-> cache,
                   calls |-> calls]
             ELSE IF in_vocabulary.status # "ok"
             THEN [status |-> in_vocabulary.status, cache |-> cache,
                   calls |-> called]
             ELSE resource_languages(
                      Tail(language_codes),
                      IF in_vocabulary.value
                      THEN iso639_urls \cup {language_uri} ELSE iso639_urls,
                      in_vocabulary.cache, called, response)

_get_resource_languages(x, cache, response) ==
    resource_languages(x.languageId, {}, cache, <<>>, response)

\* A record is mapped with the memo empty or filled by an earlier record.
InitLanguages ==
    /\ RunIdle
    /\ xml \in [languageId : SeqsUpTo(LanguageCodes, MaxLanguages)]
    /\ result = NoResult
    /\ lru_cache \in {NoCache}
                     \cup {(DefaultEndpoint :> uris) :
                              uris \in {LanguageUris,
                                        {"http://lexvo.org/id/iso639-3/fin"}}}
    /\ vocabulary_log = <<>>

get_resource_languages(response) ==
    /\ result = NoResult
    /\ LET languages == _get_resource_languages(xml, lru_cache, response)
       IN  /\ IF languages.status = "ok"
              THEN \E urls \in list(languages.value) :
                      result' = [status |-> "ok",
                                 value |-> [i \in 1..Len(urls) |-> [url |-> urls[i]]]]
              ELSE result' = [status |-> languages.status]
           /\ lru_cache' = languages.cache
           /\ vocabulary_log' = languages.calls
    /\ UNCHANGED <<run_state, xml>>

NextLanguages == \E response \in Responses : get_resource_languages(response)

SpecLanguages == InitLanguages /\ [][NextLanguages]_vars

\* The URI a raw code stands for: the ISO 639-3 one when the resolver offers
\* a 639-3 code, the ISO 639-5 one otherwise.
UriOfCode(language_code) ==
    LET language == Lang[lower(language_code)]
    IN  IF language.pt3 # "" THEN "http://lexvo.org/id/iso639-3/" \o language.pt3
        ELSE "http://lexvo.org/id/iso639-5/" \o language.pt5

\* C20: the language list of a mapped record has no URI twice, every URI in
\* it is in the allowed vocabulary, and it holds the URI of each raw code
\* (639-3 when the resolver offers one, 639-5 only otherwise) that the
\* vocabulary confirms; two raw codes with the same URI give one entry.
C20_ResourceLanguages ==
    (result.status = "ok" /\ xml.languageId # <<>>) =>
        LET urls == {result.value[i].url : i \in 1..Len(result.value)}
            codes == {xml.languageId[i] : i \in 1..Len(xml.languageId)}
        IN  /\ Cardinality(urls) = Len(result.value)
            /\ DefaultEndpoint \in DOMAIN lru_cache
            /\ urls \subseteq lru_cache[DefaultEndpoint]
            /\ urls = {UriOfCode(code) : code \in codes}
                          \cap lru_cache[DefaultEndpoint]

\* Two codes of Finnish give the one 639-3 URI.
C20_Witness ==
    /\ result.status = "ok"
    /\ xml.languageId = <<"FI", "fin">>
    /\ result.value = << [url |-> "http://lexvo.org/id/iso639-3/fin"] >>
    /\ Len(vocabulary_log) = 2

\* ---- the send loop with the language vocabulary
\* The language codes of the records harvested here.
HarvestedLanguageIds == { <<>>, <<"fi">>, <<"smi", "fi">> }

InitHarvestLanguages ==
    /\ automatic_delete = FALSE
    /\ pause_between_records = FALSE
    /\ save_records_locally = FALSE
    /\ base_url_valid = TRUE
    /\ log \in InitLogs
    /\ harvested_date = NoDate
    /\ total_records = 0 /\ faulty_records = 0 /\ unsaved_records = 0
    /\ pc = "start" /\ record = NoRecord /\ exit_code = 0 /\ stderr = {}
    /\ harvested = <<>> /\ unchanged = <<>> /\ full_listed = FALSE
    /\ listings = <<>> /\ error_messages = 0
    /\ registry \in InitRegistries
    /\ nextId = Len(PidList) + 1
    /\ metax_id = NoId
    /\ opLog = <<>> /\ writeLog = <<>>
    /\ url = NoUrl /\ results = <<>> /\ retained_pids = {}
    /\ to_delete = {} /\ pids_to_be_deleted = {}
    /\ backup = NoBackup
    /\ xml = NoXml
    /\ result = NoResult
    /\ lru_cache = NoCache
    /\ vocabulary_log = <<>>

\* The exception of a failed fetch is handled as an unexpected one.
vocabulary_error_unexpected(status) == "Exception"

\* The class of the except chain that an exception of the fetch belongs to:
\* ConnectionError is a RequestException.
vocabulary_error(status) ==
    IF status = "ConnectionError" THEN "RequestException" ELSE status

\* send_record, second half, with the languages of the record: to_dict
\* resolves the languages first (one request to the vocabulary endpoint
\* unless the memo is filled), then the rest of the dict; then the update of
\* the looked-up entry or the create.  `response` is what the endpoint
\* answers if it is asked: nothing is drawn for a call that asks nothing.
send_record_write_languages(language_codes, response) ==
    /\ pc = "send_write"
    /\ (language_codes = <<>> \/ DefaultEndpoint \in DOMAIN lru_cache)
          => response = [status |-> "ConnectionError"]
    /\ LET languages == _get_resource_languages([languageId |-> language_codes],
                                                lru_cache, response)
           body == ("language" :> languages.value) @@ to_dict(record)
       IN  /\ lru_cache' = languages.cache
           /\ vocabulary_log' = vocabulary_log \o languages.calls
           /\ IF languages.status # "ok"
              THEN /\ send_except(vocabulary_error(languages.status))
                   /\ UNCHANGED <<registry, nextId, opLog, writeLog>>
              ELSE IF record.to_dict # "ok"
              THEN /\ send_except(record.to_dict)
                   /\ UNCHANGED <<registry, nextId, opLog, writeLog>>
              ELSE \E outcome \in WriteOutcomes :
                   /\ IF metax_id # NoId
                      THEN update_dataset(metax_id, body, outcome)
                      ELSE create_dataset(body, outcome)
                   /\ IF outcome = "ok"
                      THEN /\ pc' = "sent"
                           /\ UNCHANGED <<faulty_records, stderr, exit_code>>
                      ELSE send_except(outcome)
    /\ UNCHANGED <<config_vars, log, harvested_date, total_records,
                   unsaved_records, record, source_vars, metax_id,
                   deletion_vars, backup, xml, result>>

NextHarvestLanguages ==
    \/ Start
    \/ \E rec \in {r \in Records : r.rtype = "corpus"} : FetchRecord(rec)
    \/ EndOfListing
    \/ send_record_lookup
    \/ \E language_codes \in HarvestedLanguageIds, response \in Responses :
          send_record_write_languages(language_codes, response)
    \/ record_done("next")
    \/ Summary

SpecHarvestLanguages == InitHarvestLanguages /\ [][NextHarvestLanguages]_vars

\* A request to the vocabulary endpoint has failed in this run.
FetchFailed ==
    \E i \in 1..Len(vocabulary_log) :
        vocabulary_log[i].request \notin {"None", "ok"}

\* The step makes a request to the vocabulary endpoint, which fails.
FetchFails ==
    /\ Len(vocabulary_log') > Len(vocabulary_log)
    /\ vocabulary_log'[Len(vocabulary_log')].request \notin {"None", "ok"}

\* The step sends a record to the registry (POST or PUT).
SendsRecord ==
    /\ opLog' # opLog /\ opLog' # <<>>
    /\ opLog'[Len(opLog')].method \in {"POST", "PUT"}

\* Every dict sent with languages has only URIs of the fetched vocabulary
\* (a dict without languages needs no vocabulary).
SentLanguagesConfirmed ==
    /\ \A k \in 1..Len(opLog) :
          (/\ opLog[k].method \in {"POST", "PUT"}
           /\ "language" \in DOMAIN opLog[k].body
           /\ opLog[k].body.language # {}) =>
             /\ DefaultEndpoint \in DOMAIN lru_cache
             /\ opLog[k].body.language \subseteq lru_cache[DefaultEndpoint]
    /\ \A e \in registry :
          ("language" \in DOMAIN e.body /\ e.body.language # {}) =>
             /\ DefaultEndpoint \in DOMAIN lru_cache
             /\ e.body.language \subseteq lru_cache[DefaultEndpoint]

\* C19: when the vocabulary fetch fails during a harvest, language
\* resolution for the whole harvest aborts: no record is sent to the
\* registry after the failure, and no record is sent with language URIs
\* that the vocabulary did not confirm.
C19_FetchFailureAbortsHarvest ==
    [][/\ FetchFailed => ~SendsRecord
       /\ SentLanguagesConfirmed']_vars

\* C19 amended: a failed vocabulary fetch leaves the mapping of the record
\* as an exception which the send loop handles as that record's failure:
\* the record is counted faulty and is not sent, nothing is memoized, and the
\* loop goes on to the next record (whose languages are fetched again); no
\* record is sent with language URIs that the vocabulary did not confirm.
C19_FetchFailureFailsRecord ==
    [][/\ FetchFails =>
             /\ faulty_records' = faulty_records + 1
             /\ ~SendsRecord
             /\ registry' = registry /\ writeLog' = writeLog
             /\ lru_cache' = NoCache
             /\ pc' = "sent" /\ exit_code' = exit_code
       /\ SentLanguagesConfirmed']_vars

\* After a failed fetch for one record, a later record was fetched for and
\* sent with its language.
C19_Witness ==
    /\ FetchFailed
    /\ faulty_records = 1
    /\ vocabulary_log[Len(vocabulary_log)].request = "ok"
    /\ writeLog # <<>>
    /\ \E e \in registry :
          /\ "language" \in DOMAIN e.body
          /\ e.body.language = {"http://lexvo.org/id/iso639-3/fin"}

\* ---- fetch_corpora
MaxListing == 4

\* The state of the generator fetch_corpora over a listing of records, each
\* given by its resource type: the position in the listing, the records
\* yielded so far (by position) and the collected error messages.
InitFetchCorpora ==
    /\ RunIdle
    /\ xml \in SeqsUpTo(ResourceTypes, MaxListing)
    /\ result = [status |-> "iterating", position |-> 0, yielded |-> <<>>,
                 error_messages |-> 0]
    /\ lru_cache = NoCache
    /\ vocabulary_log = <<>>

\* One round of the for loop of fetch_corpora: a corpus is yielded, a record
\* of another type is passed over, a RecordParsingError is collected, and
\* any other exception leaves the generator.
fetch_corpora_record ==
    /\ result.status = "iterating"
    /\ result.position < Len(xml)
    /\ LET position == result.position + 1
           check == check_resourcetype_corpus([rtype |-> xml[position]])
       IN  result' =
             CASE check = "True" ->
                    [result EXCEPT !.position = position,
                                   !.yielded = Append(@, position)]
               [] check = "None" ->
                    [result EXCEPT !.position = position]
               [] check = "RecordParsingError" ->
                    [result EXCEPT !.position = position,
                                   !.error_messages = @ + 1]
               [] OTHER ->
                    [result EXCEPT !.position = position, !.status = check]
    /\ UNCHANGED <<run_state, xml, lru_cache, vocabulary_log>>

\* After the loop: one UnknownResourceTypeError for all collected messages
\* (unknown_count is their number), or the plain end of the iteration.
fetch_corpora_end ==
    /\ result.status = "iterating"
    /\ result.position = Len(xml)
    /\ result' = [result EXCEPT !.status = IF result.error_messages > 0
                                           THEN "UnknownResourceTypeError"
                                           ELSE "StopIteration"]
    /\ UNCHANGED <<run_state, xml, lru_cache, vocabulary_log>>

NextFetchCorpora == fetch_corpora_record \/ fetch_corpora_end

SpecFetchCorpora == InitFetchCorpora /\ [][NextFetchCorpora]_vars

\* The positions of the listing whose records have the resource type t.
PositionsOfType(t) == {k \in 1..Len(xml) : xml[k] = t}

\* The iteration is over, with or without an exception.
FetchCorporaOver == result.status # "iterating"

\* C21: fetch_corpora yields every source record whose resource type is
\* "corpus" and no record of another type; when the resource type of some
\* records cannot be parsed it still iterates to the end of the listing,
\* yielding all later corpora, and only then raises one
\* UnknownResourceTypeError whose unknown_count is the number of such records.
C21_CorporaYieldedErrorsAtEnd ==
    /\ Range(result.yielded) \subseteq PositionsOfType("corpus")
    /\ FetchCorporaOver =>
          /\ result.position = Len(xml)
          /\ Range(result.yielded) = PositionsOfType("corpus")
          /\ result.status \in {"StopIteration", "UnknownResourceTypeError"}
          /\ result.status = "UnknownResourceTypeError"
                <=> PositionsOfType("missing") # {}
          /\ result.status = "UnknownResourceTypeError"
                => result.error_messages
                      = Cardinality(PositionsOfType("missing"))

\* ---- datacatalog_dataset_record_pids
MaxEntries == 4

\* Registries the listing can meet: entries under the identifiers
\* 1..MaxEntries; the registry does not keep PIDs unique.
ListedRegistries ==
    UNION { { { Entry(i, [data_catalog |-> CatalogId,
                          persistent_identifier |-> pid_of[i],
                          title |-> "old title", state |-> "published"])
                : i \in S }
              : pid_of \in [S -> PIDs] }
            : S \in SUBSET (1..MaxEntries) }

\* A page request of the listing, with how it ended.
PageReq(page_url, outcome) ==
    [method |-> "GET", url |-> page_url, outcome |-> outcome]

\* datacatalog_dataset_record_pids is called: url is the address of the first
\* page (offset 0), results is empty.
InitAllIdentifiers ==
    /\ automatic_delete = FALSE /\ pause_between_records = FALSE
    /\ save_records_locally = FALSE /\ base_url_valid = TRUE
    /\ log = <<>> /\ harvested_date = NoDate
    /\ total_records = 0 /\ faulty_records = 0 /\ unsaved_records = 0
    /\ pc = "start" /\ record = NoRecord /\ exit_code = 0 /\ stderr = {}
    /\ harvested = <<>> /\ unchanged = <<>> /\ full_listed = FALSE
    /\ listings = <<>> /\ error_messages = 0
    /\ registry \in ListedRegistries
    /\ nextId = MaxEntries + 1 /\ metax_id = NoId
    /\ opLog = <<>> /\ writeLog = <<>>
    /\ url = 0 /\ results = <<>> /\ retained_pids = {}
    /\ to_delete = {} /\ pids_to_be_deleted = {}
    /\ backup = NoBackup
    /\ xml = NoXml /\ result = NoResult
    /\ lru_cache = NoCache /\ vocabulary_log = <<>>

\* A loop that stops after the page it has read.
next_url_none(data) == NoUrl

\* url = data["next"].
next_url(data) == data.next

\* One round of the while loop: GET the page at url, extend the results by
\* the page's and take the page's next cursor as url; when that is null the
\* loop ends and the PIDs of the results are returned. An exception of the
\* request leaves the function.
get_page(outcome) ==
    /\ result = NoResult
    /\ url # NoUrl
    /\ opLog' = Append(opLog, PageReq(url, outcome))
    /\ IF outcome = "ok"
       THEN \E data \in {Page(registry, url)} :
               /\ results' = extend(results, data.results)
               /\ url' = next_url(data)
               /\ result' = IF next_url(data) = NoUrl
                            THEN [status |-> "ok",
                                  value |-> extend(results, data.results)]
                            ELSE result
       ELSE /\ result' = [status |-> outcome]
            /\ UNCHANGED <<url, results>>
    /\ UNCHANGED <<config_vars, run_vars, source_vars, registry, nextId,
                   metax_id, writeLog, retained_pids, to_delete,
                   pids_to_be_deleted, backup, xml, lru_cache, vocabulary_log>>

NextAllIdentifiers == \E outcome \in LookupOutcomes : get_page(outcome)

SpecAllIdentifiers == InitAllIdentifiers /\ [][NextAllIdentifiers]_vars

\* The loop is sequential and every request returns or raises (it carries a
\* timeout), so a round that can be taken is taken.
FairAllIdentifiers == SpecAllIdentifiers /\ WF_vars(NextAllIdentifiers)

\* The cursors of the chain of pages of the registry: the first page, and
\* the page each page's next cursor points to.
RECURSIVE ChainFrom(_)
ChainFrom(cursor) ==
    IF Page(registry, cursor).next = NoUrl THEN <<cursor>>
    ELSE <<cursor>> \o ChainFrom(Page(registry, cursor).next)

PageChain == ChainFrom(0)

PidsOfPages ==
    UNION {Range(Page(registry, PageChain[k]).results)
              : k \in 1..Len(PageChain)}

RequestedUrls == [k \in 1..Len(opLog) |-> opLog[k].url]

\* The pages are requested in chain order, each once, and what is returned
\* is the union of the PIDs of all pages.
AllIdentifiersFollowsChain ==
    /\ Len(opLog) <= Len(PageChain)
    /\ \A k \in 1..Len(opLog) : RequestedUrls[k] = PageChain[k]
    /\ result # NoResult /\ result.status = "ok" =>
          /\ RequestedUrls = PageChain
          /\ Range(result.value) = PidsOfPages
          /\ Range(result.value)
                = {e.body.persistent_identifier : e \in registry}

\* C22: the listing follows the next cursor page by page until next is
\* null, requests each page exactly once, terminates for every finite chain
\* of pages, and returns exactly the union of the persistent identifiers of
\* all pages.
C22_AllIdentifiers ==
    /\ []AllIdentifiersFollowsChain
    /\ <>(result # NoResult)

\* A listing of three pages was followed to the end; two entries have the
\* same PID.
C22_Witness ==
    /\ result # NoResult /\ result.status = "ok"
    /\ Len(opLog) = 3
    /\ Len(result.value) > Cardinality(Range(result.value))

\* ---- create_dataset, update_dataset, delete_dataset
MaxWrites == 2

\* The dicts a caller passes to create_dataset and update_dataset.
Bodies == {to_dict([pid |-> pid, title |-> title]) : pid \in PIDs, title \in Titles}

\* The identifiers a caller passes: those of the entries before the calls,
\* and one no entry has.
DatasetIds == 1..(Len(PidList) + 1)

\* The client before a call of create_dataset, update_dataset or
\* delete_dataset: no request made yet, nothing returned.
InitRegistryWrites ==
    /\ automatic_delete = FALSE /\ pause_between_records = FALSE
    /\ save_records_locally = FALSE /\ base_url_valid = TRUE
    /\ log = <<>> /\ harvested_date = NoDate
    /\ total_records = 0 /\ faulty_records = 0 /\ unsaved_records = 0
    /\ pc = "start" /\ record = NoRecord /\ exit_code = 0 /\ stderr = {}
    /\ harvested = <<>> /\ unchanged = <<>> /\ full_listed = FALSE
    /\ listings = <<>> /\ error_messages = 0
    /\ registry \in InitRegistries
    /\ nextId = Len(PidList) + 1 /\ metax_id = NoId
    /\ opLog = <<>> /\ writeLog = <<>>
    /\ url = NoUrl /\ results = <<>> /\ retained_pids = {}
    /\ to_delete = {} /\ pids_to_be_deleted = {}
    /\ backup = NoBackup
    /\ xml = NoXml /\ result = NoResult
    /\ lru_cache = NoCache /\ vocabulary_log = <<>>

\* What a call hands to its caller: the returned value, or the exception
\* that left the function.
returned(outcome, value) ==
    IF outcome = "ok" THEN [status |-> "ok", value |-> value]
    ELSE [status |-> outcome]

\* create_dataset(metadata_dict) returns the identifier of the new entry.
call_create_dataset(body, outcome) ==
    /\ Len(opLog) < MaxWrites
    /\ create_dataset(body, outcome)
    /\ result' = returned(outcome, nextId)
    /\ UNCHANGED <<config_vars, run_vars, source_vars, metax_id,
                   deletion_vars, backup, xml, lru_cache, vocabulary_log>>

\* update_dataset(metax_dataset_id, metadata_dict) returns the identifier of
\* the entry.
call_update_dataset(id, body, outcome) ==
    /\ Len(opLog) < MaxWrites
    /\ update_dataset(id, body, outcome)
    /\ result' = returned(outcome, id)
    /\ UNCHANGED <<config_vars, run_vars, source_vars, metax_id,
                   deletion_vars, backup, xml, lru_cache, vocabulary_log>>

\* delete_dataset(metax_dataset_id) returns the response.
call_delete_dataset(id, outcome) ==
    /\ Len(opLog) < MaxWrites
    /\ delete_dataset(id, outcome)
    /\ result' = returned(outcome, "response")
    /\ UNCHANGED <<config_vars, run_vars, source_vars, nextId, metax_id,
                   writeLog, deletion_vars, backup, xml, lru_cache,
                   vocabulary_log>>

NextRegistryWrites ==
    \/ \E body \in Bodies, outcome \in WriteOutcomes :
          call_create_dataset(body, outcome)
    \/ \E id \in DatasetIds, body \in Bodies, outcome \in WriteOutcomes :
          call_update_dataset(id, body, outcome)
    \/ \E id \in DatasetIds, outcome \in WriteOutcomes :
          call_delete_dataset(id, outcome)

SpecRegistryWrites == InitRegistryWrites /\ [][NextRegistryWrites]_vars

\* The request the call made last.
LastRequest == opLog'[Len(opLog')]

\* C23: a create, update or delete whose registry request fails makes
\* exactly one request (no internal retry), logs the failure, and raises the
\* transport error to the caller instead of returning a value; a successful
\* one makes exactly one POST, PUT or DELETE respectively.
C23_OneRequestFailureLoggedAndRaised ==
    [][/\ Len(opLog') = Len(opLog) + 1
       /\ (\E body \in Bodies, outcome \in WriteOutcomes :
              call_create_dataset(body, outcome))
             => LastRequest.method = "POST"
       /\ (\E id \in DatasetIds, body \in Bodies, outcome \in WriteOutcomes :
              call_update_dataset(id, body, outcome))
             => LastRequest.method = "PUT"
       /\ (\E id \in DatasetIds, outcome \in WriteOutcomes :
              call_delete_dataset(id, outcome))
             => LastRequest.method = "DELETE"
       /\ LastRequest.outcome # "ok" =>
             /\ LastRequest.logged = "error"
             /\ result' = [status |-> LastRequest.outcome]
             /\ registry' = registry
       /\ LastRequest.outcome = "ok" =>
             /\ result'.status = "ok" /\ "value" \in DOMAIN result'
       ]_vars

\* ---- last_harvest_date
MaxLines == 4

\* The log files last_harvest_date can be given: no file at the path, or a
\* file of up to MaxLines lines of the harvester's logger, in the order of
\* their times.
LogFiles ==
    {[exists |-> FALSE]}
    \cup { [exists |-> TRUE,
            lines |-> [k \in 1..n |->
                         LogLine(k, ms[k], message[k], 0, NoDate, 0)]]
           : n \in 0..MaxLines,
             ms \in [1..MaxLines -> {690, 887}],
             message \in [1..MaxLines -> {"Started", "Success"}] }

\* last_harvest_date(log_file_path): the scan of the lines of the file, None
\* when open() raises FileNotFoundError.
last_harvest_date_at(log_file) ==
    IF log_file.exists THEN last_harvest_date(log_file.lines) ELSE NoDate

InitLastHarvest ==
    /\ automatic_delete = FALSE /\ pause_between_records = FALSE
    /\ save_records_locally = FALSE /\ base_url_valid = TRUE
    /\ log \in LogFiles /\ harvested_date = NoDate
    /\ total_records = 0 /\ faulty_records = 0 /\ unsaved_records = 0
    /\ pc = "start" /\ record = NoRecord /\ exit_code = 0 /\ stderr = {}
    /\ harvested = <<>> /\ unchanged = <<>> /\ full_listed = FALSE
    /\ listings = <<>> /\ error_messages = 0
    /\ registry = {} /\ nextId = 1 /\ metax_id = NoId
    /\ opLog = <<>> /\ writeLog = <<>>
    /\ url = NoUrl /\ results = <<>> /\ retained_pids = {}
    /\ to_delete = {} /\ pids_to_be_deleted = {}
    /\ backup = NoBackup
    /\ xml = NoXml /\ result = NoResult
    /\ lru_cache = NoCache /\ vocabulary_log = <<>>

call_last_harvest_date ==
    /\ result = NoResult
    /\ result' = [status |-> "ok", value |-> last_harvest_date_at(log)]
    /\ UNCHANGED <<run_state, xml, lru_cache, vocabulary_log>>

NextLastHarvest == call_last_harvest_date

SpecLastHarvest == InitLastHarvest /\ [][NextLastHarvest]_vars

\* The Success lines of the file that come right after a Started line.
SuccessAfterStarted ==
    IF log.exists
    THEN {i \in 2..Len(log.lines) :
             /\ log.lines[i].message = "Success"
             /\ log.lines[i - 1].message = "Started"}
    ELSE {}

LatestOf(S) == CHOOSE i \in S : \A j \in S : j <= i

\* C24: last_harvest_date returns the time, to the second, of the Started
\* line right before the latest Success line of the log that has one,
\* passing over later Started lines that no Success follows; it returns None
\* when there is no log file or no Success line right after a Started line.
C24_LastHarvestDate ==
    result # NoResult =>
       /\ result.status = "ok"
       /\ result.value =
             IF SuccessAfterStarted = {} THEN NoDate
             ELSE log.lines[LatestOf(SuccessAfterStarted) - 1].sec

\* A successful run, then two runs that logged Started only: the date is the
\* start of the first.
C24_Witness ==
    /\ result # NoResult /\ log.exists /\ Len(log.lines) = 4
    /\ log.lines[2].message = "Success"
    /\ log.lines[3].message = "Started" /\ log.lines[4].message = "Started"
    /\ result.value = 1

\* ---- get_dataset_record_metax_id
MaxLookups == 2

\* The client before a lookup, over a registry that may hold several entries
\* of one PID.
InitRecordId ==
    /\ automatic_delete = FALSE /\ pause_between_records = FALSE
    /\ save_records_locally = FALSE /\ base_url_valid = TRUE
    /\ log = <<>> /\ harvested_date = NoDate
    /\ total_records = 0 /\ faulty_records = 0 /\ unsaved_records = 0
    /\ pc = "start" /\ record = NoRecord /\ exit_code = 0 /\ stderr = {}
    /\ harvested = <<>> /\ unchanged = <<>> /\ full_listed = FALSE
    /\ listings = <<>> /\ error_messages = 0
    /\ registry \in ListedRegistries
    /\ nextId = MaxEntries + 1 /\ metax_id = NoId
    /\ opLog = <<>> /\ writeLog = <<>>
    /\ url = NoUrl /\ results = <<>> /\ retained_pids = {}
    /\ to_delete = {} /\ pids_to_be_deleted = {}
    /\ backup = NoBackup
    /\ xml = NoXml /\ result = NoResult
    /\ lru_cache = NoCache /\ vocabulary_log = <<>>

\* get_dataset_record_metax_id(dataset_pid): one GET; the identifier of
\* results[0] when the response's count is 1, None otherwise; an exception of
\* the request leaves the function.
call_record_id(pid, outcome) ==
    /\ Len(opLog) < MaxLookups
    /\ opLog' = Append(opLog, Req("GET", pid, NoId, NoBody, outcome))
    /\ result' = returned(outcome, record_id(registry, pid))
    /\ UNCHANGED <<config_vars, run_vars, source_vars, registry, nextId,
                   metax_id, writeLog, deletion_vars, backup, xml, lru_cache,
                   vocabulary_log>>

NextRecordId ==
    \E pid \in PIDs, outcome \in LookupOutcomes : call_record_id(pid, outcome)

SpecRecordId == InitRecordId /\ [][NextRecordId]_vars

\* The lookup the client made last, in the state after the step.
LastLookup == opLog'[Len(opLog')]

\* C25: record_id(pid) makes exactly one lookup request and returns the
\* registry identifier of the matching entry only when the registry reports
\* exactly one entry for that PID in the catalog; it returns None when the
\* registry reports zero matches or more than one match.
C25_RecordIdOfSingleMatch ==
    [][/\ Len(opLog') = Len(opLog) + 1
       /\ LastLookup.method = "GET"
       /\ LastLookup.outcome = "ok" =>
             /\ result'.status = "ok"
             /\ IF Cardinality(Matches(registry, LastLookup.pid)) = 1
                THEN \E e \in registry :
                        /\ e.body.persistent_identifier = LastLookup.pid
                        /\ e.body.data_catalog = CatalogId
                        /\ result'.value = e.id
                ELSE result'.value = NoId
       ]_vars

\* A lookup of a PID that two entries have returned None.
C25_Witness ==
    /\ opLog # <<>>
    /\ opLog[Len(opLog)].outcome = "ok"
    /\ Cardinality(Matches(registry, opLog[Len(opLog)].pid)) = 2
    /\ result = [status |-> "ok", value |-> NoId]

\* ---- _get_element_text_in_preferred_language
MaxElements == 2

\* The text of an element matched by the xpath: "None" for an element without
\* a text node, otherwise its text as it stands in the document.
ElementTexts == {"None", "  ", " The Corpus ", "Korpus"}

\* str.strip over the texts above.
strip(text) ==
    CASE text = "  " -> ""
      [] text = " The Corpus " -> "The Corpus"
      [] OTHER -> text

\* The elements the xpath of a title or a description selects, in document
\* order, each with its xml:lang attribute.
LanguageElements ==
    SeqsUpTo([lang : {"en", "fi", "und", "sv"}, text : ElementTexts],
             MaxElements)

\* The xpath {xpath}[@xml:lang='{lang}']/text(): the text nodes of the
\* elements of that language.
text_nodes(elements, lang) ==
    SelectSeq(elements, LAMBDA element :
                 element.lang = lang /\ element.text # "None")

\* The dict of the first text, stripped, per language that has a text node.
_get_element_text_in_preferred_language(elements) ==
    [lang \in {l \in Range(supported_languages) :
                  text_nodes(elements, l) # <<>>}
        |-> strip(text_nodes(elements, lang)[1].text)]

InitLanguageContents ==
    /\ RunIdle
    /\ xml \in LanguageElements
    /\ result = NoResult
    /\ lru_cache = NoCache
    /\ vocabulary_log = <<>>

get_element_text_in_preferred_language ==
    /\ result = NoResult
    /\ result' = [status |-> "ok",
                  value |-> _get_element_text_in_preferred_language(xml)]
    /\ UNCHANGED <<run_state, xml, lru_cache, vocabulary_log>>

NextLanguageContents == get_element_text_in_preferred_language

SpecLanguageContents ==
    InitLanguageContents /\ [][NextLanguageContents]_vars

\* The source has content for a language tag: some element of that language
\* holds more than whitespace.
HasContent(lang) ==
    \E i \in 1..Len(xml) :
       /\ xml[i].lang = lang
       /\ xml[i].text # "None" /\ strip(xml[i].text) # ""

\* C27: the multilingual mapping of a title or description contains a
\* language tag (en, fi, und) only if the source has content for that tag: a
\* tag with no element is omitted, and no tag is ever present with an empty
\* string as its value, including when the first matching element holds only
\* whitespace.
C27_TagsOnlyWithContent ==
    result.status = "ok" =>
       /\ DOMAIN result.value \subseteq Range(supported_languages)
       /\ \A lang \in DOMAIN result.value :
             /\ HasContent(lang)
             /\ result.value[lang] # ""

\* ---- _organization_uri of consortium affiliations
\* The organizationInfo of an affiliation: the display name and, for some,
\* the name of the department.
DepartmentNames ==
    {"University of Helsinki", "University of Turku", "Department of Science"}
AffiliationInfos ==
    { ("organizationName_en" :> organization) @@ ("email" :> "info@example.com")
        : organization \in {"FIN-CLARIN", "University of Turku", "Kotus"} }
    \cup { ("organizationName_en" :> organization)
           @@ ("departmentName_en" :> department)
           @@ ("email" :> "info@example.com")
        : organization \in {"FIN-CLARIN", "University of Turku", "Kotus"},
          department \in DepartmentNames }

\* Two actors of a record, each with an affiliation.
InitOrganizationUri ==
    /\ RunIdle
    /\ xml \in [1..2 -> {[organizationInfo |-> info] : info \in AffiliationInfos}]
    /\ result = NoResult
    /\ lru_cache = NoCache
    /\ vocabulary_log = <<>>

\* The organization URI of each of the two actors.
organization_uri ==
    /\ result = NoResult
    /\ result' = [status |-> "ok",
                  value |-> [i \in 1..2 |-> _organization_uri(xml[i])]]
    /\ UNCHANGED <<run_state, xml, lru_cache, vocabulary_log>>

NextOrganizationUri == organization_uri

SpecOrganizationUri == InitOrganizationUri /\ [][NextOrganizationUri]_vars

\* The actor's display name is the consortium's and its department is an
\* organization of the code table.
ConsortiumWithKnownDepartment(data) ==
    /\ data.organizationInfo["organizationName_en"] = "FIN-CLARIN"
    /\ "departmentName_en" \in DOMAIN data.organizationInfo
    /\ data.organizationInfo["departmentName_en"] \in DOMAIN organization_codes

\* C28: when an actor's organization display name is the umbrella consortium
\* name (FIN-CLARIN), the organization URI is determined from the
\* department-level name of the affiliation, not from the consortium name:
\* two such actors with different known departments get different
\* organization URIs.
C28_ConsortiumUriFromDepartment ==
    result.status = "ok" =>
       /\ \A i \in 1..2 :
             ConsortiumWithKnownDepartment(xml[i]) =>
                result.value[i] =
                   [status |-> "ok",
                    value |-> url_base \o "/" \o
                       organization_codes[
                          xml[i].organizationInfo["departmentName_en"]]]
       /\ (/\ ConsortiumWithKnownDepartment(xml[1])
           /\ ConsortiumWithKnownDepartment(xml[2])
           /\ xml[1].organizationInfo["departmentName_en"]
                 # xml[2].organizationInfo["departmentName_en"])
             => result.value[1] # result.value[2]

\* ---- consecutive runs
MaxRuns == 2
MaxRunRecords == 1

\* The asctime of the line the logger writes next, a reading of the wall
\* clock of the zone: late in the second of the last line of the log (lines
\* written within one second share it), in a later second, or in an earlier
\* one (summer time has ended, or the clock was set back).
asctime(lines) ==
    {[sec |-> lines[Len(lines)].sec - 1, ms |-> RunTime.ms],
     [sec |-> lines[Len(lines)].sec, ms |-> 952],
     [sec |-> lines[Len(lines)].sec + 1, ms |-> RunTime.ms]}

\* The runs that have logged Started, the one of the log found in place
\* included.
StartedRuns(lines) ==
    Cardinality({i \in 1..Len(lines) : lines[i].message = "Started"})

\* The pcs at which the process of a run is over.
EndedPcs == {"done", "aborted", "crashed"}

\* The records of the source in these runs: corpora of one PID whose mapping
\* succeeds, fails for the record, or fails unexpectedly.
RunRecords ==
    {r \in Records : r.rtype = "corpus" /\ r.pid = PidList[1]}

\* The log found in place is that of an unfinished run or of a run that
\* reached its summary with a faulty record.  Its lines were written in second
\* `found`, counted from an origin early enough that the clock, were it set
\* back before every line the runs write, still reads a date (a second
\* above NoDate).
InitRuns ==
    /\ automatic_delete = FALSE
    /\ pause_between_records = FALSE
    /\ save_records_locally = FALSE
    /\ base_url_valid = TRUE
    /\ LET found == 2 * MaxRuns + 1
       IN  log \in {<< LogLine(found, 887, "Started", 0, NoDate, 0) >>,
                    << LogLine(found, 887, "Started", 0, NoDate, 0),
                       LogLine(found, 952, "Success", 1, NoDate, 1) >>}
    /\ harvested_date = NoDate
    /\ total_records = 0 /\ faulty_records = 0 /\ unsaved_records = 0
    /\ pc = "start" /\ record = NoRecord /\ exit_code = 0 /\ stderr = {}
    /\ harvested = <<>> /\ unchanged = <<>> /\ full_listed = FALSE
    /\ listings = <<>> /\ error_messages = 0
    /\ registry = {}
    /\ nextId = Len(PidList) + 1
    /\ metax_id = NoId
    /\ opLog = <<>> /\ writeLog = <<>>
    /\ url = NoUrl /\ results = <<>> /\ retained_pids = {}
    /\ to_delete = {} /\ pids_to_be_deleted = {}
    /\ backup = NoBackup
    /\ xml = NoXml
    /\ result = NoResult
    /\ lru_cache = NoCache
    /\ vocabulary_log = <<>>

\* A new process runs full_harvest, the first one or after the process of
\* the run before has ended: the locals are fresh, the log file and the
\* registry are as the earlier runs left them.
StartRun ==
    /\ pc \in {"start"} \cup EndedPcs
    /\ StartedRuns(log) < MaxRuns + 1
    /\ harvested_date' = last_harvest_date(log)
    /\ \E now \in asctime(log) :
          log' = Append(log, LogLine(now.sec, now.ms, "Started", 0, NoDate, 0))
    /\ total_records' = 0 /\ faulty_records' = 0 /\ unsaved_records' = 0
    /\ record' = NoRecord /\ exit_code' = 0 /\ stderr' = {}
    /\ listings' = <<ListRecords(last_harvest_date(log), "published")>>
    /\ full_listed' = (last_harvest_date(log) = NoDate)
    /\ harvested' = <<>> /\ unchanged' = <<>> /\ error_messages' = 0
    /\ metax_id' = NoId /\ opLog' = <<>> /\ writeLog' = <<>>
    /\ url' = NoUrl /\ results' = <<>> /\ retained_pids' = {}
    /\ to_delete' = {} /\ pids_to_be_deleted' = {}
    /\ pc' = "fetch"
    /\ UNCHANGED <<config_vars, registry, nextId, backup>>
    /\ UNCHANGED mapper_vars

\* A summary that is logged only for a run without faulty records.
SummaryRun_unless_faulty ==
    /\ pc = "summary"
    /\ \E now \in asctime(log) :
          log' = IF faulty_records = 0
                 THEN Append(log, LogLine(now.sec, now.ms, "Success",
                                          total_records, harvested_date,
                                          faulty_records))
                 ELSE log
    /\ unsaved_records' = 0
    /\ pc' = IF save_records_locally THEN "backup_published" ELSE "relist"
    /\ UNCHANGED <<config_vars, harvested_date, total_records, faulty_records,
                   record, exit_code, stderr, source_vars, registry_vars,
                   deletion_vars, backup>>
    /\ UNCHANGED mapper_vars

\* The summary line of the run, at the time it is written: "Success" whether
\* or not records were faulty.
SummaryRun ==
    /\ pc = "summary"
    /\ \E now \in asctime(log) :
          log' = Append(log, LogLine(now.sec, now.ms, "Success", total_records,
                                    harvested_date, faulty_records))
    /\ unsaved_records' = 0
    /\ pc' = IF save_records_locally THEN "backup_published" ELSE "relist"
    /\ UNCHANGED <<config_vars, harvested_date, total_records, faulty_records,
                   record, exit_code, stderr, source_vars, registry_vars,
                   deletion_vars, backup>>
    /\ UNCHANGED mapper_vars

\* The listing of a run delivers a record; it holds at most MaxRunRecords.
FetchRunRecord(rec) ==
    /\ Len(harvested) < MaxRunRecords
    /\ FetchRecord(rec)

\* The runs; the source holds no records besides those a run harvests.
NextRuns ==
    \/ StartRun
    \/ \E rec \in RunRecords : FetchRunRecord(rec)
    \/ EndOfListing
    \/ send_record_lookup
    \/ send_record_write
    \/ record_done("next")
    \/ SummaryRun
    \/ relist(<<>>)
    \/ \E outcome \in {"ok", "RequestException"} :
          datacatalog_dataset_record_pids(outcome)
    \/ Exit

SpecRuns == InitRuns /\ [][NextRuns]_vars

\* The step is the start of a run.
RunStarts == pc \in {"start"} \cup EndedPcs /\ pc' = "fetch"

\* The Started lines of the runs that went on to log their summary.
StartsOfSummarized(lines) ==
    {i \in 1..(Len(lines) - 1) :
        lines[i].message = "Started" /\ lines[i + 1].message = "Success"}

\* The start time, to the second, of the latest run of the log that reached
\* its summary step; None if there is no such run.
LatestSummarizedStart(lines) ==
    IF StartsOfSummarized(lines) = {} THEN NoDate
    ELSE lines[CHOOSE i \in StartsOfSummarized(lines) :
                  \A j \in StartsOfSummarized(lines) : j <= i].sec

\* C29: across consecutive runs, the from-timestamp of a run is the start
\* time of the latest earlier run that reached its summary step: a run that
\* finishes its send loop logs Success even when records were faulty (so the
\* next run asks for the changes since that run's start only), while a run
\* that aborted logs no Success and never advances the from-timestamp.
C29_FromTimestampOfLatestSummarizedRun ==
    [][/\ RunStarts =>
             /\ harvested_date' = LatestSummarizedStart(log)
             /\ listings' = <<ListRecords(LatestSummarizedStart(log), "published")>>
             /\ Len(log') = Len(log) + 1
             /\ log'[Len(log')].message = "Started"
       /\ (pc = "summary" /\ pc' # "summary") =>
             /\ Len(log') = Len(log) + 1
             /\ log'[Len(log')].message = "Success"
             /\ log'[Len(log')].faulty = faulty_records
             /\ LatestSummarizedStart(log') = log[Len(log)].sec
       /\ (~RunStarts /\ pc # "summary") =>
             /\ log' = log
             /\ LatestSummarizedStart(log') = LatestSummarizedStart(log)
       ]_vars

\* The log holds a run that reached its summary with a faulty record, the
\* next run aborted, and the run after it asks for the changes since the
\* start of the first.
C29_Witness ==
    /\ pc = "fetch" /\ Len(log) >= 4
    /\ log[Len(log) - 3].message = "Started"
    /\ log[Len(log) - 2].message = "Success" /\ log[Len(log) - 2].faulty > 0
    /\ log[Len(log) - 1].message = "Started"
    /\ log[Len(log)].message = "Started"
    /\ harvested_date = log[Len(log) - 3].sec
    /\ listings = <<ListRecords(log[Len(log) - 3].sec, "published")>>

====
